---- MODULE Spec2Model ----
(***************************************************************************)
(* Workout state machine and transition monitor of slipstream             *)
(* (src/src/mcp/workout).                                                  *)
(*                                                                         *)
(* The state is the WorkoutStateMachine instance (_phase, _workout,        *)
(* _state, _lock), the wall clock, for every calling thread the operation  *)
(* it is in and its position in it, and the outcome (return value or       *)
(* exception) that the latest step handed to its caller; then the          *)
(* TransitionMonitor instance (monitor) and the outcome of the monitor     *)
(* call just made, with the live signal it read (chk); the content of the  *)
(* vision StateStore (store); and for the tool functions of tools.py the   *)
(* call each thread is in (tool), the value the latest step handed to the  *)
(* tools' client (out) and that client's own count of its skips (client);  *)
(* the files of the TemplateStorage directory (template_dir); and the      *)
(* position of the application's poll loop over the monitor (poll).        *)
(* Python list indices are 0-based; sequences here are 1-based, so         *)
(* segments[idx] of the source is segments[idx + 1] below.                 *)
(***************************************************************************)
EXTENDS Integers, Sequences, FiniteSets, TLC

VARIABLES _phase, _workout, _state, _lock, now, pc, op, ret, local,
          monitor, chk, store, tool, out, client, template_dir, poll

smVars == <<_phase, _workout, _state>>
monVars == <<monitor, chk>>
toolVars == <<tool, out, client>>
vars == <<_phase, _workout, _state, _lock, now, pc, op, ret, local,
          monitor, chk, store, tool, out, client, template_dir, poll>>

(* ------------------------------ bounds -------------------------------- *)
\* Longest workout a caller creates, and the last reading of the clock.
MaxSegments == 2
MaxTime == 1

\* Two caller threads: one lock serialises every body, so any overlap of
\* operations is an overlap of two callers.
Threads == {1, 2}

\* The thread the application's poll loop runs on, where there is one.
Poller == 2

(* ------------------------------ models.py ----------------------------- *)
None == [none |-> TRUE]

\* An optional number that is present (None when absent).
Some(x) == [some |-> x]

NO_WORKOUT == "no_workout"
CREATED == "created"
ACTIVE == "active"
COMPLETE == "complete"
WorkoutPhase == {NO_WORKOUT, CREATED, ACTIVE, COMPLETE}

SegmentType == <<"warmup", "work", "rest", "cooldown">>

WorkoutSegment(type, duration, distance) ==
    [type |-> type,
     target_duration_seconds |-> duration,
     target_distance_m |-> distance]

\* WorkoutSegment.to_dict: the key-value form handed out in return values.
SegmentToDict(s) ==
    [type |-> s.type,
     target_duration_seconds |-> s.target_duration_seconds,
     target_distance_m |-> s.target_distance_m]

\* The i-th segment of the workouts the callers create: the kinds in turn,
\* timed warmup/rest/cooldown and a distance target on work segments.
SegmentOf(i) ==
    LET type == SegmentType[((i - 1) % 4) + 1]
    IN  IF type = "work"
        THEN WorkoutSegment(type, None, Some(2))
        ELSE WorkoutSegment(type, Some(1), None)

\* Workout(name, segments) with n segments; the id tells the workouts apart.
Workout(n) ==
    [workout_id |-> n,
     segments |-> [i \in 1..n |-> SegmentOf(i)]]

\* The workouts a caller may hand to create_workout (lengths 0..MaxSegments).
Workouts == {Workout(n) : n \in 0..MaxSegments}

\* Mutant: a result that takes the time of the advance for its start.
SegmentResult_starts_at_end(idx, type, started, ended, distance, strokes, rate, skipped) ==
    [segment_index |-> idx,
     segment_type |-> type,
     started_at |-> ended,
     ended_at |-> ended,
     actual_duration_seconds |-> ended - started,
     actual_distance_m |-> distance,
     stroke_count |-> strokes,
     avg_stroke_rate |-> rate,
     skipped |-> skipped]

SegmentResult(idx, type, started, ended, distance, strokes, rate, skipped) ==
    [segment_index |-> idx,
     segment_type |-> type,
     started_at |-> started,
     ended_at |-> ended,
     actual_duration_seconds |-> ended - started,
     actual_distance_m |-> distance,
     stroke_count |-> strokes,
     avg_stroke_rate |-> rate,
     skipped |-> skipped]

\* Mutant: a cursor that starts on the second segment.
WorkoutState_cursor_at_one(w, t) ==
    [workout |-> w,
     current_segment_idx |-> 1,
     segment_started_at |-> t,
     segment_stroke_count_start |-> 0,
     total_started_at |-> t,
     segments_completed |-> <<>>]

\* WorkoutState(workout=..., segment_started_at=now, total_started_at=now)
WorkoutState(w, t) ==
    [workout |-> w,
     current_segment_idx |-> 0,
     segment_started_at |-> t,
     segment_stroke_count_start |-> 0,
     total_started_at |-> t,
     segments_completed |-> <<>>]

\* workout.segments[idx] raises IndexError outside 0..len-1 (idx is never
\* negative here).
HasCurrentSegment(s) ==
    s.current_segment_idx < Len(s.workout.segments)

current_segment(s) == s.workout.segments[s.current_segment_idx + 1]

next_segment(s) ==
    IF s.current_segment_idx + 1 < Len(s.workout.segments)
    THEN s.workout.segments[s.current_segment_idx + 2]
    ELSE None

\* Mutant: the segment before the last one is taken for the last.
is_last_segment_one_early(s) ==
    s.current_segment_idx >= Len(s.workout.segments) - 2

is_last_segment(s) ==
    s.current_segment_idx >= Len(s.workout.segments) - 1

(* --------------------- transitions.py, state_store.py ----------------- *)
\* Mutants of the trigger table: distance_reached tried before
\* duration_elapsed on work segments; rest segments given the triggers of a
\* warmup.
TRANSITION_RULES_distance_first ==
    [warmup |-> <<"duration_elapsed", "swimming_stopped">>,
     work |-> <<"distance_reached", "duration_elapsed", "swimming_stopped">>,
     rest |-> <<"duration_elapsed", "swimming_started">>,
     cooldown |-> <<"duration_elapsed", "swimming_stopped">>]

TRANSITION_RULES_rest_as_warmup ==
    [warmup |-> <<"duration_elapsed", "swimming_stopped">>,
     work |-> <<"duration_elapsed", "distance_reached", "swimming_stopped">>,
     rest |-> <<"duration_elapsed", "swimming_stopped">>,
     cooldown |-> <<"duration_elapsed", "swimming_stopped">>]

\* The triggers of each segment type, in the order they are tried.
TRANSITION_RULES ==
    [warmup |-> <<"duration_elapsed", "swimming_stopped">>,
     work |-> <<"duration_elapsed", "distance_reached", "swimming_stopped">>,
     rest |-> <<"duration_elapsed", "swimming_started">>,
     cooldown |-> <<"duration_elapsed", "swimming_stopped">>]

\* dps_ratio = 1.8 metres per stroke, in tenths of a metre; distances the
\* monitor computes are in tenths of a metre as well.
dps_ratio == 18

\* TransitionMonitor(state_machine, vision_state_store,
\*                   grace_period_seconds=grace,
\*                   swimming_debounce_seconds=debounce)
TransitionMonitor(grace, debounce) ==
    [dps_ratio |-> dps_ratio,
     grace_period_seconds |-> grace,
     swimming_debounce_seconds |-> debounce,
     _last_swimming_state |-> FALSE,
     _swimming_state_changed_at |-> None]

\* The settings the monitors are built with, in clock ticks.
GracePeriods == {0, 1}
Debounces == {0, 1}

\* What vision_state_store.get_state() returns (the fields the monitor
\* reads). The store is written by the vision pipeline, so a read may return
\* any of VisionStates.
SwimState(is_swimming, stroke_count) ==
    [is_swimming |-> is_swimming,
     stroke_count |-> stroke_count,
     stroke_rate |-> 1]

\* The cumulative stroke counts the live signal reports: none, short of
\* and beyond a 2 m target at 1.8 m per stroke.
StrokeCounts == {0, 1, 2}

VisionStates ==
    {SwimState(b, n) : b \in BOOLEAN, n \in StrokeCounts}

\* The content of a StateStore whose writes the model follows: the SwimState
\* it holds, the time at which its is_swimming last changed, and whether
\* check() has been called since then. `store` is None where the model does
\* not follow the writes of the vision pipeline.
StateStore(is_swimming, stroke_count, since, polled) ==
    [state |-> SwimState(is_swimming, stroke_count),
     since |-> since,
     polled |-> polled]

\* StateStore.get_state(): the snapshots a read may return. A store whose
\* writes are not followed may hold any of VisionStates.
get_state == IF store = None THEN VisionStates ELSE {store.state}

\* chk is the outcome of the monitor call the step just taken made: the
\* dict returned or the exception raised, how often it called get_state()
\* and what that returned; NoChk after any other step.
NoChk ==
    [op |-> "none", value |-> [status |-> "none"], get_state_calls |-> 0,
     vision |-> None]

\* Python truth of an optional number: None and 0 are false.
Truthy(x) == x # None /\ x.some # 0

(* --------------------------- state_machine.py ------------------------- *)
Ops == {"create_workout", "start_workout", "advance_segment", "skip_segment",
        "end_workout", "get_status", "clear_workout"}

\* ret is the outcome the step just taken handed to a caller: who called
\* what, and the value returned or the exception raised; NoRet after a step
\* that returns nothing to anyone.
NoRet == [thread |-> 0, op |-> "none", value |-> [status |-> "none"]]

\* A step of a state machine operation is no monitor call: it leaves the
\* monitor alone, and the loop that polls it where it is.
NoMonitorCall == chk' = NoChk /\ UNCHANGED <<monitor, store, poll>>

\* out is the value the step just taken handed to the client of the tool
\* functions: who called which tool, and the dict returned or the exception
\* raised; NoOut after a step that ends no tool call.
NoOut == [thread |-> 0, tool |-> "none", value |-> [status |-> "none"]]

\* A step that is no step of the tool layer: no tool call begins or ends.
NoToolReturn == out' = NoOut /\ UNCHANGED <<tool, client, template_dir>>

Raise(e) == [status |-> e]

\* advance_segment's parameter defaults.
DefaultArgs ==
    [stroke_count |-> 0, distance_m |-> 0, avg_stroke_rate |-> 0,
     skipped |-> FALSE]

\* The arguments a caller passes to advance_segment: measured metrics, or
\* zero metrics with the skipped flag.
AdvanceArgs ==
    {[stroke_count |-> 2, distance_m |-> 4, avg_stroke_rate |-> 1,
      skipped |-> FALSE],
     [stroke_count |-> 0, distance_m |-> 0, avg_stroke_rate |-> 0,
      skipped |-> TRUE]}

\* Mutant: skip_segment that forgets the skipped flag.
skip_segment_not_flagged == DefaultArgs

\* skip_segment: advance_segment(skipped=True), the rest defaulted.
skip_segment == [DefaultArgs EXCEPT !.skipped = TRUE]

\* Mutant: the result list is overwritten with the new result.
append_overwrites(rs, result) == <<result>>

\* segments_completed.append(result)
append(rs, result) == Append(rs, result)

\* WorkoutStateMachine() and its callers before any call.
InitStateMachine ==
    /\ _phase = NO_WORKOUT
    /\ _workout = None
    /\ _state = None
    /\ _lock = 0
    /\ now = 0
    /\ pc = [t \in Threads |-> "idle"]
    /\ op = [t \in Threads |-> "none"]
    /\ ret = NoRet
    /\ local = [t \in Threads |-> None]

\* No tool function has been called.
NoTools ==
    /\ tool = [t \in Threads |-> None]
    /\ out = NoOut
    /\ client = [skipped |-> 0]
    /\ template_dir = None

\* A monitor that nothing polls.
Init ==
    /\ InitStateMachine
    /\ monitor = TransitionMonitor(1, 1)
    /\ chk = NoChk
    /\ poll = None
    /\ store = None
    /\ NoTools

\* datetime.now(timezone.utc): `now` is the latest reading of the clock, and
\* a reading returns that value or a later one.
Clock == now..MaxTime

\* A thread that is in no operation invokes one of the operations `ops`.
CallOf(t, ops) ==
    /\ pc[t] = "idle"
    /\ \E o \in ops : op' = [op EXCEPT ![t] = o]
    /\ pc' = [pc EXCEPT ![t] = "wait"]
    /\ ret' = NoRet
    /\ NoMonitorCall
    /\ NoToolReturn
    /\ UNCHANGED <<_phase, _workout, _state, _lock, now, local>>

\* A caller may invoke any of the public operations.
Call(t) == CallOf(t, Ops)

\* Mutant: a lock that never blocks a second caller.
LockFree_never_blocks == TRUE

\* threading.Lock: acquirable only while no thread holds it.
LockFree == _lock = 0

\* `with self._lock:` entry.
Acquire(t) ==
    /\ pc[t] = "wait"
    /\ LockFree
    /\ _lock' = t
    /\ pc' = [pc EXCEPT ![t] = "locked"]
    /\ ret' = NoRet
    /\ NoMonitorCall
    /\ NoToolReturn
    /\ UNCHANGED <<_phase, _workout, _state, now, op, local>>

(* ------------------------------ tools.py ------------------------------ *)
\* The tool functions create_workout_tools returns.
Tools == {"create_workout", "start_workout", "get_workout_status",
          "skip_segment", "end_workout", "list_workout_templates"}

\* tool[t] while thread t is inside a tool function: which one, and its
\* locals (the Workout it built and its save_as_template argument, the
\* summary end_workout got); None while t is in none.
ToolCall(name, workout, save_as_template) ==
    [name |-> name,
     workout |-> workout,
     save_as_template |-> save_as_template,
     summary |-> None]

\* {"error": str(e)}: the exception's name stands for its message.
error(message) == [status |-> "ok", error |-> message]

\* Mutant: handlers for the state machine's own exceptions only.
except_Exception_domain_only(r) ==
    IF r.status \in {"WorkoutExistsError", "NoWorkoutError",
                     "WorkoutAlreadyActiveError", "WorkoutNotActiveError"}
    THEN error(r.status)
    ELSE r

\* try: ... except Exception as e: return {"error": str(e)} around a body
\* whose outcome is r: a value is returned, an exception becomes an error
\* dict.
except_Exception(r) == IF r.status = "ok" THEN r ELSE error(r.status)

\* What the tool function with frame f returns once its last state machine
\* call has returned r.
tool_value(f, r) ==
    IF f.name = "skip_segment"
    THEN [status |-> "ok",
          skipped |-> r.completed,
          now_on |-> r.now_on,
          workout_complete |-> r.workout_complete]
    ELSE IF f.name = "end_workout"
    THEN [status |-> "ok", summary |-> f.summary]
    ELSE r

\* The client's count of the skips it made in the workout it started: a
\* skip_segment that returned no error counts, a start_workout or
\* end_workout that returned no error begins a new count.
tally(name, value) ==
    IF value.status # "ok" \/ "error" \in DOMAIN value
    THEN client
    ELSE IF name = "skip_segment"
    THEN [client EXCEPT !.skipped = @ + 1]
    ELSE IF name \in {"start_workout", "end_workout"}
    THEN [client EXCEPT !.skipped = 0]
    ELSE client

\* The tool function t is in hands `value` to the client.
tool_return(t, value) ==
    /\ pc' = [pc EXCEPT ![t] = "idle"]
    /\ op' = [op EXCEPT ![t] = "none"]
    /\ tool' = [tool EXCEPT ![t] = None]
    /\ out' = [thread |-> t, tool |-> tool[t].name, value |-> value]
    /\ client' = tally(tool[t].name, value)
    /\ UNCHANGED template_dir

\* A state machine call made by the tool function t is in ends with
\* outcome r: an exception goes to the handler; end_workout goes on to
\* clear_workout; create_workout saves the template if asked to (open() may
\* fail); then the tool returns.
tool_resume(t, r) ==
    IF r.status # "ok"
    THEN tool_return(t, except_Exception(r))
    ELSE IF tool[t].name = "end_workout" /\ op[t] = "end_workout"
    THEN /\ tool' = [tool EXCEPT ![t].summary = r]
         /\ op' = [op EXCEPT ![t] = "clear_workout"]
         /\ pc' = [pc EXCEPT ![t] = "wait"]
         /\ out' = NoOut
         /\ UNCHANGED <<client, template_dir>>
    ELSE IF tool[t].name = "create_workout" /\ tool[t].save_as_template
    THEN \E saved \in {r, Raise("OSError")} :
            tool_return(t, except_Exception(saved))
    ELSE tool_return(t, except_Exception(tool_value(tool[t], r)))


\* The caller gets the outcome r of its call: a thread that called the state
\* machine directly is in no operation any more; a tool function goes on.
Resume(t, r) ==
    IF tool[t] = None
    THEN /\ pc' = [pc EXCEPT ![t] = "idle"]
         /\ op' = [op EXCEPT ![t] = "none"]
         /\ NoToolReturn
    ELSE tool_resume(t, r)

\* Mutant: acquire()/release() without try/finally: an exception leaves the
\* lock held.
Exit_keeps_lock_on_raise(t, r) ==
    /\ _lock' = IF r.status = "ok" THEN 0 ELSE _lock
    /\ ret' = [thread |-> t, op |-> op[t], value |-> r]
    /\ local' = [local EXCEPT ![t] = None]
    /\ NoMonitorCall
    /\ Resume(t, r)

\* Leaving the `with` block, by return or by exception, releases the lock
\* and hands the outcome r to the caller.
Exit(t, r) ==
    /\ _lock' = 0
    /\ ret' = [thread |-> t, op |-> op[t], value |-> r]
    /\ local' = [local EXCEPT ![t] = None]
    /\ NoMonitorCall
    /\ Resume(t, r)

InBody(t, o) == pc[t] = "locked" /\ op[t] = o

\* Mutants of the phase tests: create allowed over a finished workout, start
\* allowed again after completion, start allowed again while active, advance
\* allowed after completion, end refused after completion, and ended_early
\* reported on every summary.
create_rejected_unless_complete == _phase \notin {NO_WORKOUT, COMPLETE}

start_already_active_misses_complete == _phase = ACTIVE

start_already_active_misses_active == _phase = COMPLETE

advance_rejected_unless_complete == _phase \notin {ACTIVE, COMPLETE}

end_rejected_when_complete == _phase # ACTIVE

ended_early_always == _phase \in {ACTIVE, COMPLETE}

\* The phase tests that open the operations.
create_rejected == _phase # NO_WORKOUT

start_no_workout == _phase = NO_WORKOUT

start_already_active == _phase \in {ACTIVE, COMPLETE}

advance_rejected == _phase # ACTIVE

end_rejected == _phase \notin {ACTIVE, COMPLETE}

\* end_workout's "ended_early" entry.
ended_early == _phase = ACTIVE

\* Mutant: a summary that takes the cursor for the count of completed
\* segments.
summary_counts_cursor(tm) ==
    [status |-> "ok",
     workout_id |-> _workout.workout_id,
     total_duration_seconds |-> tm - _state.total_started_at,
     segments_completed |-> _state.current_segment_idx,
     segments_total |-> Len(_workout.segments),
     segments |-> _state.segments_completed,
     ended_early |-> ended_early]

\* The summary end_workout builds at clock reading tm (the names left out).
summary(tm) ==
    [status |-> "ok",
     workout_id |-> _workout.workout_id,
     total_duration_seconds |-> tm - _state.total_started_at,
     segments_completed |-> Len(_state.segments_completed),
     segments_total |-> Len(_workout.segments),
     segments |-> _state.segments_completed,
     ended_early |-> ended_early]

\* create_workout(workout) for a workout out of `catalog`.
create_workout_from(t, catalog) ==
    /\ InBody(t, "create_workout")
    /\ \E workout \in catalog :
         IF create_rejected
         THEN /\ Exit(t, Raise("WorkoutExistsError"))
              /\ UNCHANGED <<_phase, _workout, _state>>
         ELSE /\ _workout' = workout
              /\ _phase' = CREATED
              /\ UNCHANGED _state
              /\ Exit(t, [status |-> "ok",
                          workout_id |-> workout.workout_id,
                          segments_count |-> Len(workout.segments)])
    /\ UNCHANGED now

create_workout(t) == create_workout_from(t, Workouts)

start_workout(t) ==
    /\ InBody(t, "start_workout")
    /\ IF start_no_workout
       THEN /\ Exit(t, Raise("NoWorkoutError"))
            /\ UNCHANGED <<_phase, _workout, _state, now>>
       ELSE IF start_already_active
       THEN /\ Exit(t, Raise("WorkoutAlreadyActiveError"))
            /\ UNCHANGED <<_phase, _workout, _state, now>>
       ELSE /\ now' \in Clock
            /\ _state' = WorkoutState(_workout, now')
            /\ _phase' = ACTIVE
            /\ UNCHANGED _workout
            \* building the return value reads current_segment after the
            \* assignments: an empty segment list raises IndexError here
            /\ IF HasCurrentSegment(_state')
               THEN Exit(t, [status |-> "ok",
                             started_at |-> now',
                             first_segment |-> SegmentToDict(current_segment(_state')),
                             total_segments |-> Len(_workout.segments)])
               ELSE Exit(t, Raise("IndexError"))

\* advance_segment up to and including segments_completed.append(result);
\* skip_segment is advance_segment(skipped=True).
advance_segment_record(t) ==
    /\ pc[t] = "locked"
    /\ op[t] \in {"advance_segment", "skip_segment"}
    /\ \E a \in (IF op[t] = "skip_segment" THEN {skip_segment}
                ELSE IF poll # None /\ t = Poller THEN {poll.args}
                ELSE AdvanceArgs) :
         IF advance_rejected
         THEN /\ Exit(t, Raise("WorkoutNotActiveError"))
              /\ UNCHANGED <<_phase, _workout, _state, now>>
         ELSE IF ~HasCurrentSegment(_state)
         THEN /\ Exit(t, Raise("IndexError"))
              /\ UNCHANGED <<_phase, _workout, _state, now>>
         ELSE /\ now' \in Clock
              /\ LET result == SegmentResult(_state.current_segment_idx,
                                             current_segment(_state).type,
                                             _state.segment_started_at, now',
                                             a.distance_m, a.stroke_count,
                                             a.avg_stroke_rate, a.skipped)
                 IN  /\ _state' = [_state EXCEPT !.segments_completed =
                                                     append(@, result)]
                     /\ local' = [local EXCEPT ![t] = result]
              /\ pc' = [pc EXCEPT ![t] = "advancing"]
              /\ ret' = NoRet
              /\ NoMonitorCall
              /\ NoToolReturn
              /\ UNCHANGED <<_phase, _workout, _lock, op>>

\* advance_segment from the is_last_segment test to the return; local[t] is
\* the result recorded by the first part (completed_info, and `now` as its
\* ended_at).
advance_segment_move(t) ==
    /\ pc[t] = "advancing"
    /\ IF _state = None
       THEN /\ Exit(t, Raise("AttributeError"))
            /\ UNCHANGED <<_phase, _workout, _state>>
       ELSE IF is_last_segment(_state)
       THEN /\ _phase' = COMPLETE
            /\ UNCHANGED <<_workout, _state>>
            /\ Exit(t, [status |-> "ok",
                        completed |-> local[t],
                        workout_complete |-> TRUE,
                        now_on |-> None])
       ELSE /\ _state' = [_state EXCEPT
                            !.current_segment_idx = @ + 1,
                            !.segment_started_at = local[t].ended_at]
            /\ UNCHANGED <<_phase, _workout>>
            /\ IF HasCurrentSegment(_state')
               THEN Exit(t, [status |-> "ok",
                             completed |-> local[t],
                             workout_complete |-> FALSE,
                             now_on |-> SegmentToDict(current_segment(_state'))])
               ELSE Exit(t, Raise("IndexError"))
    /\ UNCHANGED now

end_workout(t) ==
    /\ InBody(t, "end_workout")
    /\ IF end_rejected
       THEN /\ Exit(t, Raise("WorkoutNotActiveError"))
            /\ UNCHANGED <<_phase, _workout, _state, now>>
       ELSE /\ now' \in Clock
            /\ _phase' = COMPLETE
            /\ UNCHANGED <<_workout, _state>>
            /\ Exit(t, summary(now'))

\* get_status (the names and progress.percent left out of the snapshot).
get_status(t) ==
    /\ InBody(t, "get_status")
    /\ IF _phase = NO_WORKOUT
       THEN /\ Exit(t, [status |-> "ok", has_active_workout |-> FALSE])
            /\ UNCHANGED now
       ELSE /\ now' \in Clock
            /\ IF _state = None
               THEN Exit(t, [status |-> "ok",
                             has_active_workout |-> (_phase = ACTIVE),
                             phase |-> _phase,
                             workout_id |-> _workout.workout_id])
               ELSE IF ~HasCurrentSegment(_state)
               THEN Exit(t, Raise("IndexError"))
               ELSE Exit(t, [status |-> "ok",
                             has_active_workout |-> (_phase = ACTIVE),
                             phase |-> _phase,
                             workout_id |-> _workout.workout_id,
                             current_segment |->
                                 [index |-> _state.current_segment_idx,
                                  type |-> current_segment(_state).type,
                                  elapsed_seconds |->
                                      now' - _state.segment_started_at],
                             progress |->
                                 [segments_completed |->
                                      Len(_state.segments_completed),
                                  segments_total |-> Len(_workout.segments)],
                             total_elapsed_seconds |->
                                 now' - _state.total_started_at,
                             next_segment |->
                                 IF next_segment(_state) # None
                                 THEN SegmentToDict(next_segment(_state))
                                 ELSE None])
    /\ UNCHANGED <<_phase, _workout, _state>>

\* Mutant: clear_workout that forgets to drop the execution state.
clear_workout_keeps_state(t) ==
    /\ InBody(t, "clear_workout")
    /\ _workout' = None
    /\ _phase' = NO_WORKOUT
    /\ Exit(t, [status |-> "ok"])
    /\ UNCHANGED <<_state, now>>

\* Mutant: clear_workout that leaves the phase as it is.
clear_workout_keeps_phase(t) ==
    /\ InBody(t, "clear_workout")
    /\ _workout' = None
    /\ _state' = None
    /\ Exit(t, [status |-> "ok"])
    /\ UNCHANGED <<_phase, now>>

clear_workout(t) ==
    /\ InBody(t, "clear_workout")
    /\ _workout' = None
    /\ _state' = None
    /\ _phase' = NO_WORKOUT
    /\ Exit(t, [status |-> "ok"])
    /\ UNCHANGED now

\* The callers' steps on the state machine; no monitor is polled.
Next ==
    \/ \E t \in Threads : Call(t)
    \/ \E t \in Threads : Acquire(t)
    \/ \E t \in Threads : create_workout(t)
    \/ \E t \in Threads : start_workout(t)
    \/ \E t \in Threads : advance_segment_record(t)
    \/ \E t \in Threads : advance_segment_move(t)
    \/ \E t \in Threads : end_workout(t)
    \/ \E t \in Threads : get_status(t)
    \/ \E t \in Threads : clear_workout(t)

Spec == Init /\ [][Next]_vars

\* The steps thread t takes while it holds the lock.
Body(t) ==
    \/ create_workout(t)
    \/ start_workout(t)
    \/ advance_segment_record(t)
    \/ advance_segment_move(t)
    \/ end_workout(t)
    \/ get_status(t)
    \/ clear_workout(t)

\* Fair scheduling: a thread that holds the lock keeps running (no body
\* blocks or waits), and a thread waiting for a lock that is released again
\* and again gets it at some point.
FairSpec ==
    /\ Spec
    /\ \A t \in Threads : WF_vars(Body(t)) /\ SF_vars(Acquire(t))

(* ---------------------------- transitions.py -------------------------- *)
\* The first lines of both debounce tests: a value that differs from the
\* remembered one is remembered and restarts the change timestamp.
remember(mon, is_swimming, tm) ==
    IF is_swimming # mon._last_swimming_state
    THEN [mon EXCEPT !._last_swimming_state = is_swimming,
                     !._swimming_state_changed_at = Some(tm)]
    ELSE mon

\* Mutant: a stop counts as stable as soon as a change has been recorded.
_is_swimming_stopped_stable_no_wait(mon, is_swimming, tm) ==
    LET m == remember(mon, is_swimming, tm)
    IN  [stable |-> ~is_swimming /\ m._swimming_state_changed_at # None,
         monitor |-> m]

\* Mutant: a stop is stable only after more than the debounce time.
_is_swimming_stopped_stable_strict(mon, is_swimming, tm) ==
    LET m == remember(mon, is_swimming, tm)
    IN  [stable |-> /\ ~is_swimming
                    /\ m._swimming_state_changed_at # None
                    /\ tm - m._swimming_state_changed_at.some
                           > m.swimming_debounce_seconds,
         monitor |-> m]

\* Both return the verdict and the monitor as the call leaves it; tm is the
\* clock reading the call takes.
_is_swimming_stopped_stable(mon, is_swimming, tm) ==
    LET m == remember(mon, is_swimming, tm)
    IN  [stable |-> /\ ~is_swimming
                    /\ m._swimming_state_changed_at # None
                    /\ tm - m._swimming_state_changed_at.some
                           >= m.swimming_debounce_seconds,
         monitor |-> m]

_is_swimming_started_stable(mon, is_swimming, tm) ==
    LET m == remember(mon, is_swimming, tm)
    IN  [stable |-> /\ is_swimming
                    /\ m._swimming_state_changed_at # None
                    /\ tm - m._swimming_state_changed_at.some
                           >= m.swimming_debounce_seconds,
         monitor |-> m]

\* (should_trigger, reason), the monitor afterwards, and whether the clock
\* was read (by a debounce test, at tm). distance is in tenths of a metre.
_check_trigger(mon, trigger, segment, elapsed, distance, is_swimming, tm) ==
    IF trigger = "duration_elapsed"
    THEN [hit |-> /\ Truthy(segment.target_duration_seconds)
                  /\ elapsed >= segment.target_duration_seconds.some,
          reason |-> "duration_elapsed", monitor |-> mon, clock |-> FALSE]
    ELSE IF trigger = "distance_reached"
    THEN [hit |-> /\ Truthy(segment.target_distance_m)
                  /\ distance >= segment.target_distance_m.some * 10,
          reason |-> "distance_reached", monitor |-> mon, clock |-> FALSE]
    ELSE IF trigger = "swimming_stopped"
    THEN LET r == _is_swimming_stopped_stable(mon, is_swimming, tm)
         IN  [hit |-> r.stable, reason |-> "swimming_stopped",
              monitor |-> r.monitor, clock |-> TRUE]
    ELSE IF trigger = "swimming_started"
    THEN LET r == _is_swimming_started_stable(mon, is_swimming, tm)
         IN  [hit |-> r.stable, reason |-> "swimming_started",
              monitor |-> r.monitor, clock |-> TRUE]
    ELSE [hit |-> FALSE, reason |-> "", monitor |-> mon, clock |-> FALSE]

\* `for trigger in rules["triggers"]` from the i-th trigger on: the first
\* trigger that is met ends the loop.
RECURSIVE check_triggers(_, _, _, _, _, _, _, _)
check_triggers(triggers, i, mon, segment, elapsed, distance, is_swimming, tm) ==
    IF i > Len(triggers)
    THEN [hit |-> FALSE, reason |-> "", monitor |-> mon, clock |-> FALSE]
    ELSE LET r == _check_trigger(mon, triggers[i], segment, elapsed,
                                 distance, is_swimming, tm)
         IN  IF r.hit
             THEN r
             ELSE LET rest == check_triggers(triggers, i + 1, r.monitor,
                                             segment, elapsed, distance,
                                             is_swimming, tm)
                  IN  [rest EXCEPT !.clock = @ \/ r.clock]

\* The loop of the surrounding application that polls the monitor, where the
\* model follows it (poll is None where it does not): the call it makes
\* next, the segment index its latest check() evaluated when it reported
\* should_transition, and the keyword arguments it harvested for
\* advance_segment.
\* No segment index (the loop has evaluated none in this round).
NoIndex == 0 - 1

PollLoop(at, evaluated, args) ==
    [at |-> at, evaluated |-> evaluated, args |-> args]

\* The loop is where it calls `at` (any caller may, where no loop is
\* followed).
PollLoopAt(at) ==
    IF poll = None THEN TRUE ELSE poll.at = at /\ pc[Poller] = "idle"

\* advance_segment(**metrics): the keys given, the rest defaulted.
kwargs(metrics) ==
    [k \in DOMAIN DefaultArgs |->
        IF k \in DOMAIN metrics THEN metrics[k] ELSE DefaultArgs[k]]

\* The loop after check() handed it c: on should_transition it goes on to
\* harvest the metrics; otherwise (an exception included) it polls again.
after_check(c) ==
    IF poll = None
    THEN None
    ELSE IF /\ "should_transition" \in DOMAIN c.value
            /\ c.value.should_transition
    THEN PollLoop("get_metrics_for_advance", _state.current_segment_idx,
                  DefaultArgs)
    ELSE PollLoop("check", NoIndex, DefaultArgs)

\* The loop after get_metrics_for_advance() handed it c.
after_get_metrics_for_advance(c) ==
    IF poll = None
    THEN None
    ELSE PollLoop("advance_segment", poll.evaluated, kwargs(c.value))

\* Mutants of check's first test and of its grace test: only NO_WORKOUT
\* counts as inactive; the grace period is not applied.
check_inactive_only_no_workout == _phase = NO_WORKOUT

in_grace_period_never(elapsed) == elapsed < 0

\* `self.state_machine.phase != WorkoutPhase.ACTIVE`
check_inactive == _phase # ACTIVE

\* `elapsed < self.grace_period_seconds`
in_grace_period(elapsed) == elapsed < monitor.grace_period_seconds

Checked(value, calls, v) ==
    [op |-> "check", value |-> value, get_state_calls |-> calls,
     vision |-> v]

\* Mutant: get_state() called at the top of check(), before its early
\* returns.
check_declined_after_read(value, tm) ==
    \E vision \in get_state :
        /\ chk' = Checked(value, 1, vision)
        /\ now' = tm
        /\ UNCHANGED monitor

\* A return (or raise) of check() before the live signal is read; tm is the
\* latest clock reading.
check_declined(value, tm) ==
    /\ chk' = Checked(value, 0, None)
    /\ now' = tm
    /\ UNCHANGED monitor

\* check(). The phase and state properties take the state machine's lock, so
\* the call begins while no operation holds it. tm is the clock reading of
\* check itself, tm2 the later one of the debounce test when one is run.
check ==
    /\ LockFree
    /\ PollLoopAt("check")
    /\ IF check_inactive \/ _state = None
       THEN check_declined([should_transition |-> FALSE], now)
       ELSE \E tm \in Clock :
            IF ~HasCurrentSegment(_state)
            THEN check_declined(Raise("IndexError"), tm)
            ELSE
            LET segment == current_segment(_state)
                rules == TRANSITION_RULES[segment.type]
                elapsed == tm - _state.segment_started_at
            IN  IF in_grace_period(elapsed)
                THEN check_declined([should_transition |-> FALSE,
                                     reason |-> "grace_period"], tm)
                ELSE \E tm2 \in tm..MaxTime, vision \in get_state :
                     LET segment_strokes ==
                             vision.stroke_count
                             - _state.segment_stroke_count_start
                         segment_distance ==
                             segment_strokes * monitor.dps_ratio
                         metrics ==
                             [elapsed_seconds |-> elapsed,
                              stroke_count |-> segment_strokes,
                              distance_m |-> segment_distance,
                              is_swimming |-> vision.is_swimming]
                         r == check_triggers(rules, 1, monitor, segment,
                                             elapsed, segment_distance,
                                             vision.is_swimming, tm2)
                     IN  /\ r.clock \/ tm2 = tm
                         /\ now' = tm2
                         /\ monitor' = r.monitor
                         /\ chk' = IF r.hit
                                   THEN Checked([should_transition |-> TRUE,
                                                 reason |-> r.reason,
                                                 metrics |-> metrics],
                                                1, vision)
                                   ELSE Checked([should_transition |-> FALSE,
                                                 metrics |-> metrics],
                                                1, vision)
    /\ store' = IF store = None THEN store ELSE [store EXCEPT !.polled = TRUE]
    /\ poll' = after_check(chk')
    /\ ret' = NoRet
    /\ NoToolReturn
    /\ UNCHANGED <<_phase, _workout, _state, _lock, pc, op, local>>

\* Mutant: get_metrics_for_advance() that does the monitor's debounce
\* bookkeeping on the value it reads.
get_metrics_for_advance_remembers ==
    /\ LockFree
    /\ PollLoopAt("get_metrics_for_advance")
    /\ IF _state = None
       THEN /\ chk' = [op |-> "get_metrics_for_advance", value |-> <<>>,
                       get_state_calls |-> 0, vision |-> None]
            /\ UNCHANGED monitor
       ELSE \E vision \in get_state :
            LET segment_strokes ==
                    vision.stroke_count - _state.segment_stroke_count_start
            IN  /\ chk' = [op |-> "get_metrics_for_advance",
                           value |->
                               [stroke_count |-> segment_strokes,
                                distance_m |->
                                    segment_strokes * monitor.dps_ratio,
                                avg_stroke_rate |-> vision.stroke_rate],
                           get_state_calls |-> 1, vision |-> vision]
                /\ monitor' = remember(monitor, vision.is_swimming, now)
    /\ poll' = after_get_metrics_for_advance(chk')
    /\ ret' = NoRet
    /\ NoToolReturn
    /\ UNCHANGED <<_phase, _workout, _state, _lock, now, pc, op, local,
                   store>>

\* get_metrics_for_advance(); {} is the function with no key.
get_metrics_for_advance ==
    /\ LockFree
    /\ PollLoopAt("get_metrics_for_advance")
    /\ IF _state = None
       THEN chk' = [op |-> "get_metrics_for_advance", value |-> <<>>,
                    get_state_calls |-> 0, vision |-> None]
       ELSE \E vision \in get_state :
            LET segment_strokes ==
                    vision.stroke_count - _state.segment_stroke_count_start
            IN  chk' = [op |-> "get_metrics_for_advance",
                        value |->
                            [stroke_count |-> segment_strokes,
                             distance_m |->
                                 segment_strokes * monitor.dps_ratio,
                             avg_stroke_rate |-> vision.stroke_rate],
                        get_state_calls |-> 1, vision |-> vision]
    /\ poll' = after_get_metrics_for_advance(chk')
    /\ ret' = NoRet
    /\ NoToolReturn
    /\ UNCHANGED <<_phase, _workout, _state, _lock, now, pc, op, local,
                   monitor, store>>

(* ----------------------------- state_store.py ------------------------- *)
\* StateStore.update(is_swimming=..., stroke_count=...) by the vision
\* pipeline at time tm: the stroke count is cumulative, and (the monitor
\* being polled often) is_swimming changes only after a check() call has
\* been made since its last change.
update ==
    /\ store # None
    /\ \E is_swimming \in BOOLEAN, stroke_count \in StrokeCounts, tm \in Clock :
         /\ stroke_count >= store.state.stroke_count
         /\ SwimState(is_swimming, stroke_count) # store.state
         /\ (is_swimming # store.state.is_swimming) => store.polled
         /\ now' = tm
         /\ store' = IF is_swimming # store.state.is_swimming
                     THEN StateStore(is_swimming, stroke_count, tm, FALSE)
                     ELSE [store EXCEPT
                             !.state = SwimState(is_swimming, stroke_count)]
    /\ chk' = NoChk
    /\ ret' = NoRet
    /\ NoToolReturn
    /\ UNCHANGED <<_phase, _workout, _state, _lock, pc, op, local, monitor,
                   poll>>

(* ------------------- a polled monitor beside one caller --------------- *)
\* The first segments of the polled workouts: of the first three kinds, with
\* no, 0 or 1 tick of target duration and no or 2 metres of target distance;
\* and work segments with a target distance of 0 metres.
SegmentShapes ==
    {WorkoutSegment(type, d, m) :
        type \in {SegmentType[i] : i \in 1..3},
        d \in {None, Some(0), Some(1)}, m \in {None, Some(2)}}
    \cup {WorkoutSegment("work", d, Some(0)) : d \in {None, Some(0), Some(1)}}

\* The kind after `type` in SegmentType, cyclically.
FollowingType(type) ==
    SegmentType[((CHOOSE i \in 1..4 : SegmentType[i] = type) % 4) + 1]

\* Two segments with the same targets, of one kind and the next.
MonitorWorkout(s) ==
    [workout_id |-> 2,
     segments |-> <<s, WorkoutSegment(FollowingType(s.type),
                                      s.target_duration_seconds,
                                      s.target_distance_m)>>]

MonitorWorkouts ==
    {Workout(0)} \cup {MonitorWorkout(s) : s \in SegmentShapes}

\* The thread that issues the user's commands, and the commands it issues
\* beside the polled monitor.
Commander == 1

Commands == {"create_workout", "start_workout", "skip_segment",
             "end_workout", "clear_workout"}

MonitorInit ==
    /\ InitStateMachine
    /\ monitor \in {TransitionMonitor(g, d) :
                       g \in GracePeriods, d \in Debounces}
    /\ chk = NoChk
    /\ poll = None
    /\ store = None
    /\ NoTools

MonitorNext ==
    \/ CallOf(Commander, Commands)
    \/ Acquire(Commander)
    \/ create_workout_from(Commander, MonitorWorkouts)
    \/ start_workout(Commander)
    \/ advance_segment_record(Commander)
    \/ advance_segment_move(Commander)
    \/ end_workout(Commander)
    \/ clear_workout(Commander)
    \/ check

MonitorSpec == MonitorInit /\ [][MonitorNext]_vars

(* ------------- a polled monitor and the signal it reads --------------- *)
\* Two timed segments of one tick each: warmup then work, work then rest.
SignalWorkouts ==
    {MonitorWorkout(WorkoutSegment(type, Some(1), None)) :
        type \in {"warmup", "work"}}

SignalCommands == {"create_workout", "start_workout", "skip_segment",
                   "get_status"}

\* A monitor with a positive debounce time beside a fresh StateStore, whose
\* writes are followed.
SignalInit ==
    /\ InitStateMachine
    /\ monitor \in {TransitionMonitor(g, d) :
                       g \in GracePeriods, d \in Debounces \ {0}}
    /\ chk = NoChk
    /\ poll = None
    /\ store = StateStore(FALSE, 0, 0, FALSE)
    /\ NoTools

SignalNext ==
    \/ CallOf(Commander, SignalCommands)
    \/ Acquire(Commander)
    \/ create_workout_from(Commander, SignalWorkouts)
    \/ start_workout(Commander)
    \/ advance_segment_record(Commander)
    \/ advance_segment_move(Commander)
    \/ get_status(Commander)
    \/ check
    \/ get_metrics_for_advance
    \/ update

SignalSpec == SignalInit /\ [][SignalNext]_vars

(* --------------- the poll loop beside the user's commands ------------- *)
\* The loop calls advance_segment(**metrics) with the metrics it harvested.
poll_advance_segment ==
    /\ poll # None
    /\ poll.at = "advance_segment"
    /\ pc[Poller] = "idle"
    /\ op' = [op EXCEPT ![Poller] = "advance_segment"]
    /\ pc' = [pc EXCEPT ![Poller] = "wait"]
    /\ poll' = [poll EXCEPT !.at = "check"]
    /\ chk' = NoChk
    /\ ret' = NoRet
    /\ NoToolReturn
    /\ UNCHANGED <<_phase, _workout, _state, _lock, now, local, monitor,
                   store>>

\* Two timed segments of one tick each: warmup then work, rest then
\* cooldown.
PollWorkouts ==
    {MonitorWorkout(WorkoutSegment(type, Some(1), None)) :
        type \in {"warmup", "rest"}}

\* What the user does while the loop polls.
PollCommands == {"create_workout", "start_workout", "skip_segment",
                 "end_workout"}

\* The loop is about to make its first check(); the live signal is whatever
\* the vision pipeline makes it.
PollInit ==
    /\ InitStateMachine
    /\ monitor \in {TransitionMonitor(g, d) :
                       g \in GracePeriods, d \in Debounces}
    /\ chk = NoChk
    /\ store = None
    /\ NoTools
    /\ poll = PollLoop("check", NoIndex, DefaultArgs)

PollNext ==
    \/ CallOf(Commander, PollCommands)
    \/ \E t \in Threads : Acquire(t)
    \/ create_workout_from(Commander, PollWorkouts)
    \/ start_workout(Commander)
    \/ \E t \in Threads : advance_segment_record(t)
    \/ \E t \in Threads : advance_segment_move(t)
    \/ end_workout(Commander)
    \/ check
    \/ get_metrics_for_advance
    \/ poll_advance_segment

PollSpec == PollInit /\ [][PollNext]_vars

(* ------------- the poll loop alone, polling a followed signal --------- *)
\* One segment with or without a target duration of one tick, of the kinds
\* that end on a stop and on a start of swimming; the workout of no segment;
\* and the timed workouts of two segments.
LoopWorkouts ==
    {Workout(0)}
    \cup {[workout_id |-> 1, segments |-> <<WorkoutSegment(type, d, None)>>] :
            type \in {"warmup", "rest"}, d \in {None, Some(1)}}
    \cup PollWorkouts

\* The vision pipeline writes is_swimming; no stroke is counted (no segment
\* of LoopWorkouts has a target distance).
update_is_swimming ==
    update /\ store'.state.stroke_count = store.state.stroke_count

\* The user creates and starts the workout and leaves the rest to the loop.
LoopCommands == {"create_workout", "start_workout"}

LoopInit ==
    /\ InitStateMachine
    /\ monitor \in {TransitionMonitor(g, d) :
                       g \in GracePeriods, d \in Debounces}
    /\ chk = NoChk
    /\ store = StateStore(FALSE, 0, 0, FALSE)
    /\ NoTools
    /\ poll = PollLoop("check", NoIndex, DefaultArgs)

LoopNext ==
    \/ CallOf(Commander, LoopCommands)
    \/ \E t \in Threads : Acquire(t)
    \/ create_workout_from(Commander, LoopWorkouts)
    \/ start_workout(Commander)
    \/ advance_segment_record(Poller)
    \/ advance_segment_move(Poller)
    \/ check
    \/ get_metrics_for_advance
    \/ poll_advance_segment
    \/ update_is_swimming

\* A check() that reads the clock later than the latest reading.
check_later == check /\ now' > now

\* The loop keeps polling and acts on every answer, a thread that holds the
\* lock goes on to release it, and time keeps advancing between the polls.
FairLoopSpec ==
    /\ LoopInit
    /\ [][LoopNext]_vars
    /\ SF_vars(check)
    /\ SF_vars(check_later)
    /\ SF_vars(get_metrics_for_advance)
    /\ WF_vars(poll_advance_segment)
    /\ \A t \in Threads : SF_vars(Acquire(t))
    /\ WF_vars(create_workout_from(Commander, LoopWorkouts))
    /\ WF_vars(start_workout(Commander))
    /\ WF_vars(advance_segment_record(Poller))
    /\ WF_vars(advance_segment_move(Poller))

(* ------------------- the tool functions and their client -------------- *)
\* dict.get(key): None for a missing key.
get(data, key) == IF key \in DOMAIN data THEN data[key] ELSE None

\* WorkoutSegment.from_dict (the fields the model keeps).
from_dict(data) ==
    WorkoutSegment(data.type,
                   get(data, "target_duration_seconds"),
                   get(data, "target_distance_m"))

\* The dict a client writes for SegmentOf(i): the absent target left out.
SegmentDictOf(i) ==
    LET s == SegmentOf(i)
    IN  IF s.type = "work"
        THEN [type |-> s.type, target_distance_m |-> s.target_distance_m]
        ELSE [type |-> s.type,
              target_duration_seconds |-> s.target_duration_seconds]

\* The `segments` arguments of the create_workout tool: 0..MaxSegments
\* well-formed dicts, a dict of an unknown type after a well-formed one, and
\* a dict with no type.
SegmentDictLists ==
    {[i \in 1..n |-> SegmentDictOf(i)] : n \in 0..MaxSegments}
    \cup {<<SegmentDictOf(1), [type |-> "sprint"]>>,
          <<[target_duration_seconds |-> Some(1)]>>}

\* seg.get("type") not in ("warmup", "work", "rest", "cooldown"): a missing
\* key gives None, which is none of the four.
invalid_type(seg) ==
    \/ "type" \notin DOMAIN seg
    \/ seg.type \notin {SegmentType[i] : i \in 1..4}

\* The parts of a second a clock reading may fall in.
Micros == {0, 1}

\* datetime.now(timezone.utc) read in second tm.
datetime(tm, us) == [second |-> tm, microsecond |-> us]

\* strftime("wkt_%Y%m%d_%H%M%S") of a reading: the date and time of day
\* down to the second.
_generate_workout_id(reading) == reading.second

\* Workout(name=name, segments=workout_segments): workout_id and created_at
\* by their default factories, each from a reading of its own.
NewWorkout(segments, id_reading, created_at) ==
    [workout_id |-> _generate_workout_id(id_reading),
     created_at |-> created_at,
     segments |-> segments]

\* Thread t calls the tool function `name`, which calls operation o of
\* the state machine.
tool_enter(t, f, o) ==
    /\ pc[t] = "idle"
    /\ tool' = [tool EXCEPT ![t] = f]
    /\ op' = [op EXCEPT ![t] = o]
    /\ pc' = [pc EXCEPT ![t] = "wait"]
    /\ out' = NoOut
    /\ ret' = NoRet
    /\ NoMonitorCall
    /\ UNCHANGED <<_phase, _workout, _state, _lock, local, client,
                   template_dir>>

\* The create_workout tool up to its call of state_machine.create_workout:
\* an invalid segment type returns an error dict at once.
tool_create_workout(t) ==
    \E segments \in SegmentDictLists, save_as_template \in BOOLEAN :
        IF \E i \in 1..Len(segments) : invalid_type(segments[i])
        THEN /\ pc[t] = "idle"
             /\ out' = [thread |-> t, tool |-> "create_workout",
                        value |-> error("Invalid segment type")]
             /\ ret' = NoRet
             /\ NoMonitorCall
             /\ UNCHANGED <<_phase, _workout, _state, _lock, now, pc, op,
                            local, tool, client, template_dir>>
        ELSE \E tm \in Clock, us \in Micros :
             \E tm2 \in tm..MaxTime, us2 \in Micros :
                LET workout_segments ==
                        [i \in 1..Len(segments) |-> from_dict(segments[i])]
                    workout == NewWorkout(workout_segments,
                                          datetime(tm, us),
                                          datetime(tm2, us2))
                IN  /\ now' = tm2
                    /\ tool_enter(t, ToolCall("create_workout", workout,
                                              save_as_template),
                                  "create_workout")

\* state_machine.create_workout(workout) for the tool's workout.
tool_create_workout_body(t) ==
    /\ tool[t] # None
    /\ create_workout_from(t, {tool[t].workout})

tool_start_workout(t) ==
    /\ tool_enter(t, ToolCall("start_workout", None, FALSE), "start_workout")
    /\ UNCHANGED now

tool_get_workout_status(t) ==
    /\ tool_enter(t, ToolCall("get_workout_status", None, FALSE),
                  "get_status")
    /\ UNCHANGED now

tool_skip_segment(t) ==
    /\ tool_enter(t, ToolCall("skip_segment", None, FALSE), "skip_segment")
    /\ UNCHANGED now

tool_end_workout(t) ==
    /\ tool_enter(t, ToolCall("end_workout", None, FALSE), "end_workout")
    /\ UNCHANGED now

\* The templates template_storage.list may find (the directory's content
\* is not followed).
TemplateLists == {<<>>, <<Workout(1)>>}

\* list_workout_templates: no state machine call; reading the directory
\* may fail.
tool_list_workout_templates(t) ==
    /\ pc[t] = "idle"
    /\ \E r \in {[status |-> "ok", templates |-> ts, count |-> Len(ts)] :
                    ts \in TemplateLists} \cup {Raise("OSError")} :
          out' = [thread |-> t, tool |-> "list_workout_templates",
                  value |-> except_Exception(r)]
    /\ ret' = NoRet
    /\ NoMonitorCall
    /\ UNCHANGED <<_phase, _workout, _state, _lock, now, pc, op, local, tool,
                   client, template_dir>>

\* One client that reaches the state machine through the tools only.
ToolInit ==
    /\ InitStateMachine
    /\ monitor = TransitionMonitor(1, 1)
    /\ chk = NoChk
    /\ poll = None
    /\ store = None
    /\ NoTools

ToolNext ==
    \/ tool_create_workout(Commander)
    \/ tool_start_workout(Commander)
    \/ tool_get_workout_status(Commander)
    \/ tool_skip_segment(Commander)
    \/ tool_end_workout(Commander)
    \/ tool_list_workout_templates(Commander)
    \/ Acquire(Commander)
    \/ tool_create_workout_body(Commander)
    \/ start_workout(Commander)
    \/ advance_segment_record(Commander)
    \/ advance_segment_move(Commander)
    \/ end_workout(Commander)
    \/ get_status(Commander)
    \/ clear_workout(Commander)

ToolSpec == ToolInit /\ [][ToolNext]_vars

\* The steps of the state machine calls that the tool functions make.
ToolBody(t) ==
    \/ tool_create_workout_body(t)
    \/ start_workout(t)
    \/ advance_segment_record(t)
    \/ advance_segment_move(t)
    \/ end_workout(t)
    \/ get_status(t)
    \/ clear_workout(t)

\* A client that keeps coming back to start_workout and to end_workout,
\* whatever else it calls; every call it makes runs to its return (the lock
\* is free for it and no body blocks).
RestartingToolSpec ==
    /\ ToolSpec
    /\ WF_vars(Acquire(Commander))
    /\ WF_vars(ToolBody(Commander))
    /\ SF_vars(tool_start_workout(Commander))
    /\ SF_vars(tool_end_workout(Commander))

(* --------------- models.py: to_dict and from_dict in full ------------- *)
\* A Python tuple and a Python list of the same items are different values.
tuple(items) == [tuple |-> items]

list(items) == [list |-> items]

\* Python truth of an optional tuple or list: None and the empty one are
\* false.
TruthyItems(x) ==
    /\ x # None
    /\ Len(IF "tuple" \in DOMAIN x THEN x.tuple ELSE x.list) > 0

\* WorkoutSegment with all its fields (WorkoutSegment above keeps the three
\* the state machine and the monitor read).
WorkoutSegmentFields(type, duration, distance, stroke_rate, notes) ==
    [type |-> type,
     target_duration_seconds |-> duration,
     target_distance_m |-> distance,
     target_stroke_rate |-> stroke_rate,
     notes |-> notes]

\* WorkoutSegment.to_dict
WorkoutSegment_to_dict(self) ==
    [type |-> self.type,
     target_duration_seconds |-> self.target_duration_seconds,
     target_distance_m |-> self.target_distance_m,
     target_stroke_rate |->
         IF TruthyItems(self.target_stroke_rate)
         THEN list(self.target_stroke_rate.tuple)
         ELSE None,
     notes |-> self.notes]

\* Mutant: from_dict that reads the optional targets by their truth, as
\* it reads target_stroke_rate.
WorkoutSegment_from_dict_by_truth(data) ==
    LET stroke_rate == get(data, "target_stroke_rate")
    IN  WorkoutSegmentFields(
            data.type,
            IF Truthy(get(data, "target_duration_seconds"))
            THEN get(data, "target_duration_seconds") ELSE None,
            IF Truthy(get(data, "target_distance_m"))
            THEN get(data, "target_distance_m") ELSE None,
            IF TruthyItems(stroke_rate) THEN tuple(stroke_rate.list)
            ELSE None,
            IF "notes" \in DOMAIN data THEN data.notes ELSE "")

\* WorkoutSegment.from_dict
WorkoutSegment_from_dict(data) ==
    LET stroke_rate == get(data, "target_stroke_rate")
    IN  WorkoutSegmentFields(
            data.type,
            get(data, "target_duration_seconds"),
            get(data, "target_distance_m"),
            IF TruthyItems(stroke_rate) THEN tuple(stroke_rate.list)
            ELSE None,
            IF "notes" \in DOMAIN data THEN data.notes ELSE "")

\* datetime.isoformat(): the fraction of the second is written only when
\* it is not zero.
isoformat(dt) ==
    IF dt.microsecond = 0
    THEN [iso |-> <<dt.second>>]
    ELSE [iso |-> <<dt.second, dt.microsecond>>]

\* datetime.fromisoformat(): a missing fraction reads as zero.
fromisoformat(text) ==
    datetime(text.iso[1], IF Len(text.iso) = 1 THEN 0 ELSE text.iso[2])

\* Workout with all its fields.
WorkoutFields(workout_id, name, segments, created_at, created_by) ==
    [workout_id |-> workout_id,
     name |-> name,
     segments |-> segments,
     created_at |-> created_at,
     created_by |-> created_by]

\* Workout.to_dict
Workout_to_dict(self) ==
    [workout_id |-> self.workout_id,
     name |-> self.name,
     segments |-> [i \in 1..Len(self.segments) |->
                      WorkoutSegment_to_dict(self.segments[i])],
     created_at |-> isoformat(self.created_at),
     created_by |-> self.created_by]

\* data[key] of Workout.from_dict raises KeyError for one of these missing.
RequiredKeys == {"workout_id", "name", "segments", "created_at"}

\* Workout.from_dict
Workout_from_dict(data) ==
    WorkoutFields(data.workout_id,
                  data.name,
                  [i \in 1..Len(data.segments) |->
                      WorkoutSegment_from_dict(data.segments[i])],
                  fromisoformat(data.created_at),
                  IF "created_by" \in DOMAIN data THEN data.created_by
                  ELSE "claude")

(* ----------------------------- templates.py --------------------------- *)
\* Names, ids and file names are sequences of characters, these among
\* them alphanumeric.
Alnum == {"a", "b", "A", "x", "y", "j"}

\* str.lower() on one character.
lower(c) == IF c = "A" THEN "a" ELSE c

\* The [:50] of _sanitize_filename.
filename_limit == 50

_sanitize_filename(name) ==
    LET safe == [i \in 1..Len(name) |->
                    IF name[i] \in Alnum \cup {"-", " ", "_"}
                    THEN name[i] ELSE "_"]
        replaced == [i \in 1..Len(name) |->
                        IF lower(safe[i]) = " " THEN "_"
                        ELSE lower(safe[i])]
    IN  SubSeq(replaced, 1, IF Len(name) > filename_limit
                            THEN filename_limit ELSE Len(name))

\* f"{_sanitize_filename(workout.name)}_{workout.workout_id}.json"
filename(workout) ==
    _sanitize_filename(workout.name) \o <<"_">> \o workout.workout_id
    \o <<".json">>

\* A file of the directory: JSON text that parses to `data`, text that is
\* no JSON, or a file that cannot be opened. json.dump then json.load gives
\* back the dicts, lists, strings, numbers and None that to_dict produces.
JsonFile(data) == [kind |-> "json", data |-> data]

\* Files that no save() wrote: invalid JSON, a file without read
\* permission, a JSON object with no key but workout_id, a JSON array.
ForeignFiles ==
    {[kind |-> "invalid_json"],
     [kind |-> "unreadable"],
     JsonFile([workout_id |-> <<"x">>]),
     JsonFile(list(<<>>))}

\* The name of the file that no save() writes.
ForeignName == <<"j", ".json">>

\* The segments of the saved workouts: every optional target set, one set
\* (to 0), none set.
AllTargets ==
    WorkoutSegmentFields("work", Some(1), Some(2), tuple(<<0, 1>>), "n")

SomeTargets == WorkoutSegmentFields("warmup", Some(0), None, None, "")

NoTargets == WorkoutSegmentFields("rest", None, None, None, "")

\* The workouts handed to save(): three under id x, of which two under
\* names that differ in case only, two under id y; creation times with and
\* without a fraction of a second, two of them equal.
TemplateWorkouts ==
    {WorkoutFields(<<"x">>, <<"a">>, <<AllTargets, SomeTargets, NoTargets>>,
                   datetime(0, 0), "claude"),
     WorkoutFields(<<"x">>, <<"A">>, <<SomeTargets>>,
                   datetime(0, 1), "user"),
     WorkoutFields(<<"x">>, <<"b">>, <<>>, datetime(1, 0), "claude"),
     WorkoutFields(<<"y">>, <<"a">>, <<NoTargets, AllTargets>>,
                   datetime(0, 1), "claude"),
     WorkoutFields(<<"y">>, <<"b">>, <<AllTargets>>,
                   datetime(1, 1), "claude")}

\* The ids asked for: those saved and one never saved.
TemplateIds == {<<"x">>, <<"y">>, <<"b">>}

\* The `limit` arguments of list().
Limits == {0, 1, 2}

\* The directory without file f.
unlink(dir, f) == [g \in DOMAIN dir \ {f} |-> dir[g]]

\* The directory with `file` written under name f.
write(dir, f, file) ==
    [g \in DOMAIN dir \cup {f} |-> IF g = f THEN file ELSE dir[g]]

\* A template call leaves the state machine, the monitor and the tools
\* alone.
TemplateFrame ==
    /\ NoMonitorCall
    /\ out' = NoOut
    /\ UNCHANGED <<_phase, _workout, _state, _lock, now, pc, op, local,
                   tool>>

\* The outcome of a TemplateStorage call, with its argument.
TemplateCall(o, args, value) ==
    [thread |-> Commander, op |-> o, value |-> value, args |-> args]

Continue == [status |-> "continue"]

\* `data` is a dict that Workout.from_dict reads without KeyError.
Complete(data) == RequiredKeys \subseteq DOMAIN data

\* The body of get()'s loop on one file: the next file (continue), a
\* return, or an exception that no handler of the loop catches.
get_visit(file, workout_id) ==
    IF file.kind = "unreadable" THEN Raise("PermissionError")
    ELSE IF file.kind = "invalid_json" THEN Continue
    ELSE IF "list" \in DOMAIN file.data THEN Raise("AttributeError")
    ELSE IF \/ "workout_id" \notin DOMAIN file.data
            \/ file.data.workout_id # workout_id
    THEN Continue
    ELSE IF ~Complete(file.data) THEN Continue
    ELSE [status |-> "ok", found |-> Workout_from_dict(file.data)]

\* The body of delete()'s loop on one file.
delete_visit(file, workout_id) ==
    IF file.kind = "unreadable" THEN Raise("PermissionError")
    ELSE IF file.kind = "invalid_json" THEN Continue
    ELSE IF "list" \in DOMAIN file.data THEN Raise("AttributeError")
    ELSE IF \/ "workout_id" \notin DOMAIN file.data
            \/ file.data.workout_id # workout_id
    THEN Continue
    ELSE [status |-> "ok", deleted |-> TRUE]

\* The body of list()'s loop on one file.
list_visit(file) ==
    IF file.kind = "unreadable" THEN Raise("PermissionError")
    ELSE IF file.kind = "invalid_json" THEN Continue
    ELSE IF "list" \in DOMAIN file.data THEN Raise("TypeError")
    ELSE IF ~Complete(file.data) THEN Continue
    ELSE [status |-> "ok", found |-> Workout_from_dict(file.data)]

\* a <= b for two datetimes.
NotAfter(a, b) ==
    \/ a.second < b.second
    \/ a.second = b.second /\ a.microsecond <= b.microsecond

\* The workouts of `templates` that sort(key=created_at, reverse=True) may
\* put first: those that none is newer than.
newest(templates) ==
    {w \in templates :
        \A v \in templates : NotAfter(v.created_at, w.created_at)}

\* The orders templates.sort(key=lambda w: w.created_at, reverse=True) may
\* leave the workouts in: newest first, equal creation times in the order
\* glob() found them, which is any order.
RECURSIVE sorted(_)
sorted(templates) ==
    IF templates = {}
    THEN {<<>>}
    ELSE UNION {{<<w>> \o rest : rest \in sorted(templates \ {w})} :
                   w \in newest(templates)}

\* templates[:limit] for limit >= 0
slice(templates, limit) ==
    SubSeq(templates, 1, IF Len(templates) > limit THEN limit
                         ELSE Len(templates))

\* TemplateStorage.save: the file is written over whatever has its name.
TemplateStorage_save ==
    /\ template_dir # None
    /\ \E workout \in TemplateWorkouts :
          /\ template_dir' = write(template_dir, filename(workout),
                                   JsonFile(Workout_to_dict(workout)))
          /\ ret' = TemplateCall("save", workout,
                                 [status |-> "ok", path |-> filename(workout)])
          /\ client' = [client EXCEPT !.saved[workout.workout_id] = workout]
    /\ TemplateFrame

\* TemplateStorage.get: glob() yields the files in any order, so each file
\* whose visit ends the loop may be the one that ends it.
TemplateStorage_get ==
    /\ template_dir # None
    /\ \E workout_id \in TemplateIds :
          LET ending == {f \in DOMAIN template_dir :
                            get_visit(template_dir[f], workout_id) # Continue}
          IN  IF ending = {}
              THEN ret' = TemplateCall("get", workout_id,
                                       [status |-> "ok", found |-> None])
              ELSE \E f \in ending :
                      ret' = TemplateCall("get", workout_id,
                                          get_visit(template_dir[f],
                                                    workout_id))
    /\ UNCHANGED <<template_dir, client>>
    /\ TemplateFrame

\* TemplateStorage.delete: the first file found with the id is removed.
TemplateStorage_delete ==
    /\ template_dir # None
    /\ \E workout_id \in TemplateIds :
          LET ending == {f \in DOMAIN template_dir :
                            delete_visit(template_dir[f], workout_id)
                                # Continue}
          IN  IF ending = {}
              THEN /\ ret' = TemplateCall("delete", workout_id,
                                          [status |-> "ok",
                                           deleted |-> FALSE])
                   /\ UNCHANGED <<template_dir, client>>
              ELSE \E f \in ending :
                      LET r == delete_visit(template_dir[f], workout_id)
                      IN  /\ ret' = TemplateCall("delete", workout_id, r)
                          /\ IF r.status = "ok"
                             THEN /\ template_dir' = unlink(template_dir, f)
                                  /\ client' =
                                         [client EXCEPT
                                            !.saved[workout_id] = None]
                             ELSE UNCHANGED <<template_dir, client>>
    /\ TemplateFrame

\* TemplateStorage.list: every file is visited; an exception of a visit
\* ends the call, otherwise the workouts read are sorted and cut.
TemplateStorage_list ==
    /\ template_dir # None
    /\ \E limit \in Limits :
          LET raising == {f \in DOMAIN template_dir :
                             list_visit(template_dir[f]).status
                                 \notin {"ok", "continue"}}
              templates == {list_visit(template_dir[f]).found :
                               f \in {g \in DOMAIN template_dir :
                                          list_visit(template_dir[g]).status
                                              = "ok"}}
          IN  IF raising # {}
              THEN \E f \in raising :
                      ret' = TemplateCall("list", limit,
                                          list_visit(template_dir[f]))
              ELSE \E order \in sorted(templates) :
                      ret' = TemplateCall("list", limit,
                                          [status |-> "ok",
                                           templates |-> slice(order, limit)])
    /\ UNCHANGED <<template_dir, client>>
    /\ TemplateFrame

\* Something other than save() puts a file into the directory or takes it
\* out again (test_handles_invalid_json writes corrupted.json).
foreign_file ==
    /\ template_dir # None
    /\ \/ \E file \in ForeignFiles :
             template_dir' = write(template_dir, ForeignName, file)
       \/ /\ ForeignName \in DOMAIN template_dir
          /\ template_dir' = unlink(template_dir, ForeignName)
    /\ ret' = NoRet
    /\ UNCHANGED client
    /\ TemplateFrame

\* A TemplateStorage on an empty directory, and a client that keeps, for
\* every id, the workout it saved last under it and did not delete since.
TemplateInit ==
    /\ InitStateMachine
    /\ monitor = TransitionMonitor(1, 1)
    /\ chk = NoChk
    /\ poll = None
    /\ store = None
    /\ tool = [t \in Threads |-> None]
    /\ out = NoOut
    /\ client = [skipped |-> 0, saved |-> [id \in TemplateIds |-> None]]
    /\ template_dir = <<>>

TemplateNext ==
    \/ TemplateStorage_save
    \/ TemplateStorage_get
    \/ TemplateStorage_delete
    \/ TemplateStorage_list
    \/ foreign_file

TemplateSpec == TemplateInit /\ [][TemplateNext]_vars

\* A directory that only the TemplateStorage writes.
KeyedStoreNext ==
    \/ TemplateStorage_save
    \/ TemplateStorage_get
    \/ TemplateStorage_delete
    \/ TemplateStorage_list

KeyedStoreSpec == TemplateInit /\ [][KeyedStoreNext]_vars

(* ----------------------- reading the behaviours ----------------------- *)
AdvanceOps == {"advance_segment", "skip_segment"}

\* The step just taken ended thread t's call of operation o.
Returned(t, o) == ret.thread = t /\ ret.op = o

\* This step is the locked body of t's call of o (for the advance
\* operations: the part up to the append).
BodyStep(t, o) == pc[t] = "locked" /\ op[t] = o /\ pc'[t] # "locked"

\* This step is the second part of t's advance_segment, ending in its return.
MoveStep(t) == pc[t] = "advancing" /\ pc'[t] = "idle"

\* This step hands t the outcome of its call of o.
Returns(t, o) == ret'.thread = t /\ ret'.op = o

Started == _state # None

\* The k-th recorded result carries segment_index k (0-based), no gap and
\* no duplicate.
IndicesInOrder(rs) == \A k \in 1..Len(rs) : rs[k].segment_index = k - 1

(* ------------------------------- C1 ----------------------------------- *)
C1_Record(t) ==
    (/\ pc[t] = "locked" /\ op[t] \in AdvanceOps /\ pc'[t] # "locked"
     /\ _workout # None /\ Len(_workout.segments) >= 1)
    => IF _phase = ACTIVE
       THEN /\ pc'[t] = "advancing"
            /\ local'[t].segment_index = Len(_state.segments_completed)
            /\ _state'.segments_completed =
                   Append(_state.segments_completed, local'[t])
       ELSE /\ Returns(t, op[t])
            /\ ret'.value.status = "WorkoutNotActiveError"
            /\ _state' = _state /\ _phase' = _phase

C1_Move(t) ==
    MoveStep(t)
    => /\ Returns(t, op[t])
       /\ ret'.value.status = "ok"
       /\ ret'.value.completed.segment_index = local[t].segment_index
       /\ _state'.segments_completed = _state.segments_completed
       /\ (_phase' = COMPLETE) <=>
              (Len(_state'.segments_completed) = Len(_workout.segments))
       /\ ret'.value.workout_complete <=> (_phase' = COMPLETE)

C1_Serial ==
    (Started /\ Len(_workout.segments) >= 1)
    => /\ IndicesInOrder(_state.segments_completed)
       /\ Len(_state.segments_completed) <= Len(_workout.segments)
       /\ (_phase = ACTIVE /\ \A t \in Threads : pc[t] # "advancing")
              => /\ _state.current_segment_idx = Len(_state.segments_completed)
                 /\ _state.current_segment_idx < Len(_workout.segments)

\* C1: concurrent advance_segment/skip_segment calls on a started workout of
\* N >= 1 segments act one after the other: while the phase is ACTIVE each
\* call appends exactly one SegmentResult whose segment_index is the number
\* of results recorded before it, so the indices are 0,1,..,N-1 in list
\* order; the call that records the N-th result sets COMPLETE; a call that
\* finds the phase not ACTIVE raises WorkoutNotActiveError and appends
\* nothing.
C1_ConcurrentAdvancesSerialize ==
    [][/\ \A t \in Threads : C1_Record(t) /\ C1_Move(t)
       /\ C1_Serial']_vars

\* Thread 1 is inside advance_segment having just recorded the last segment
\* of a two-segment workout while thread 2 waits for the lock to advance.
C1_Witness ==
    /\ _workout # None /\ Len(_workout.segments) = 2
    /\ pc[1] = "advancing" /\ local[1].segment_index = 1
    /\ pc[2] = "wait" /\ op[2] \in AdvanceOps

(* ------------------------------- C2 ----------------------------------- *)
\* C2: in every step the phase stays or moves along a legal edge:
\* NO_WORKOUT->CREATED by create_workout, CREATED->ACTIVE by start_workout,
\* ACTIVE->COMPLETE by advance_segment on the last segment or by
\* end_workout, and any phase->NO_WORKOUT by clear_workout.
C2_LegalPhaseEdges ==
    [][\/ _phase' = _phase
       \/ /\ _phase = NO_WORKOUT /\ _phase' = CREATED
          /\ \E t \in Threads : BodyStep(t, "create_workout")
       \/ /\ _phase = CREATED /\ _phase' = ACTIVE
          /\ \E t \in Threads : BodyStep(t, "start_workout")
       \/ /\ _phase = ACTIVE /\ _phase' = COMPLETE
          /\ \E t \in Threads :
               \/ BodyStep(t, "end_workout")
               \/ /\ MoveStep(t) /\ op[t] \in AdvanceOps
                  /\ _state.current_segment_idx = Len(_workout.segments) - 1
       \/ /\ _phase' = NO_WORKOUT
          /\ \E t \in Threads : BodyStep(t, "clear_workout")]_vars

\* A start attempted on a completed workout was refused: still COMPLETE.
C2_Witness ==
    /\ _phase = COMPLETE
    /\ Len(_state.segments_completed) = Len(_workout.segments)
    /\ \E t \in Threads :
         /\ Returned(t, "start_workout")
         /\ ret.value.status = "WorkoutAlreadyActiveError"

(* ------------------------------- C3 ----------------------------------- *)
C3_Step(t) ==
    BodyStep(t, "create_workout")
    => /\ Returns(t, "create_workout")
       /\ IF _phase = NO_WORKOUT
          THEN /\ ret'.value.status = "ok"
               /\ _phase' = CREATED
               /\ _workout' \in Workouts
               /\ ret'.value.workout_id = _workout'.workout_id
               /\ ret'.value.segments_count = Len(_workout'.segments)
               /\ _state' = _state
          ELSE /\ ret'.value.status = "WorkoutExistsError"
               /\ UNCHANGED <<_phase, _workout, _state>>

\* C3: create_workout succeeds only in NO_WORKOUT (stores the workout, phase
\* CREATED); in every other phase it raises WorkoutExistsError and leaves
\* workout, execution state and phase as they were.
C3_CreateOnlyFromNoWorkout ==
    [][\A t \in Threads : C3_Step(t)]_vars

\* A second create was refused while the first workout, already advanced,
\* is still the stored one.
C3_Witness ==
    \E t \in Threads :
        /\ Returned(t, "create_workout")
        /\ ret.value.status = "WorkoutExistsError"
        /\ _phase = ACTIVE
        /\ _workout = Workout(2)
        /\ Len(_state.segments_completed) = 1

(* ------------------------------- C4 ----------------------------------- *)
C4_Step(t) ==
    BodyStep(t, "start_workout")
    => /\ Returns(t, "start_workout")
       /\ (_phase = CREATED)
              => /\ _phase' = ACTIVE
                 /\ _workout' = _workout
                 /\ _state'.workout = _workout
                 /\ _state'.current_segment_idx = 0
                 /\ _state'.segments_completed = <<>>
                 /\ _state'.total_started_at = now'
                 /\ _state'.segment_started_at = _state'.total_started_at
                 /\ now' >= now
       /\ (_phase = NO_WORKOUT)
              => /\ ret'.value.status = "NoWorkoutError"
                 /\ UNCHANGED <<_phase, _workout, _state>>
       /\ (_phase \in {ACTIVE, COMPLETE})
              => /\ ret'.value.status = "WorkoutAlreadyActiveError"
                 /\ UNCHANGED <<_phase, _workout, _state>>
       /\ (ret'.value.status = "ok") => (_phase = CREATED)

\* C4: start_workout succeeds only in CREATED, where it sets ACTIVE with a
\* fresh execution state (index 0, no results, segment_started_at =
\* total_started_at = now); in NO_WORKOUT it raises NoWorkoutError, in
\* ACTIVE and COMPLETE WorkoutAlreadyActiveError, changing nothing.
C4_StartOnlyFromCreated ==
    [][\A t \in Threads : C4_Step(t)]_vars

\* A second start was refused on an active workout that keeps its progress:
\* one result recorded, cursor on segment 1, that segment started later than
\* the workout.
C4_Witness ==
    \E t \in Threads :
        /\ Returned(t, "start_workout")
        /\ ret.value.status = "WorkoutAlreadyActiveError"
        /\ _phase = ACTIVE
        /\ _state.current_segment_idx = 1
        /\ Len(_state.segments_completed) = 1
        /\ _state.segment_started_at > _state.total_started_at

(* ------------------------------- C5 ----------------------------------- *)
C5_Step(t) ==
    (/\ pc[t] = "locked" /\ op[t] \in AdvanceOps /\ pc'[t] # "locked"
     /\ _phase # ACTIVE)
    => /\ Returns(t, op[t])
       /\ ret'.value.status = "WorkoutNotActiveError"
       /\ pc'[t] = "idle"
       /\ UNCHANGED <<_phase, _workout, _state>>

\* C5: advance_segment and skip_segment outside ACTIVE raise
\* WorkoutNotActiveError and change neither the results, the index,
\* segment_started_at nor the phase.
C5_AdvanceNeedsActive ==
    [][\A t \in Threads : C5_Step(t)]_vars

\* A skip was refused on a workout completed by its last advance.
C5_Witness ==
    \E t \in Threads :
        /\ Returned(t, "skip_segment")
        /\ ret.value.status = "WorkoutNotActiveError"
        /\ _phase = COMPLETE
        /\ Len(_workout.segments) = 2
        /\ Len(_state.segments_completed) = 2

(* ------------------------------- C6 ----------------------------------- *)
C6_Record(t) ==
    (pc[t] = "locked" /\ op[t] \in AdvanceOps /\ pc'[t] = "advancing")
    => /\ local'[t].ended_at = now'
       /\ now' >= now

C6_Move(t) ==
    (MoveStep(t) /\ ret'.value.status = "ok")
    => LET i == _state.current_segment_idx
           n == Len(_workout.segments)
       IN  /\ Returns(t, op[t])
           /\ IF i < n - 1
              THEN /\ ~ret'.value.workout_complete
                   /\ ret'.value.now_on = SegmentToDict(_workout.segments[i + 2])
                   /\ _phase' = ACTIVE
                   /\ _state'.current_segment_idx = i + 1
                   /\ _state'.segment_started_at = local[t].ended_at
              ELSE /\ i = n - 1
                   /\ ret'.value.workout_complete
                   /\ ret'.value.now_on = None
                   /\ _phase' = COMPLETE
                   /\ _state'.current_segment_idx = i

\* C6: a successful advance_segment on a non-last segment i returns
\* workout_complete=false and now_on = segment i+1, leaving ACTIVE, index
\* i+1 and segment_started_at = the 'now' the call read; on the last segment
\* it returns workout_complete=true, now_on=None, sets COMPLETE and leaves
\* the index on the last segment.
C6_AdvanceResult ==
    [][\A t \in Threads : C6_Record(t) /\ C6_Move(t)]_vars

\* The last segment of a two-segment workout has just been advanced past:
\* COMPLETE, index still 1, and the segment had started when the advance off
\* segment 0 read the clock, later than the workout started.
C6_Witness ==
    \E t \in Threads :
        /\ Returned(t, "advance_segment") /\ ret.value.status = "ok"
        /\ ret.value.workout_complete /\ ret.value.now_on = None
        /\ _phase = COMPLETE
        /\ Len(_workout.segments) = 2
        /\ _state.current_segment_idx = 1
        /\ _state.segment_started_at = _state.segments_completed[1].ended_at
        /\ _state.segment_started_at > _state.total_started_at

(* ------------------------------- C7 ----------------------------------- *)
C7_Step(t) ==
    BodyStep(t, "end_workout")
    => /\ Returns(t, "end_workout")
       /\ IF _phase \in {ACTIVE, COMPLETE}
          THEN /\ ret'.value.status = "ok"
               /\ ret'.value.ended_early <=> (_phase = ACTIVE)
               /\ ret'.value.segments_completed = Len(_state.segments_completed)
               /\ _phase' = COMPLETE
               /\ _workout # None /\ _workout' = _workout
               /\ _state # None /\ _state' = _state
          ELSE /\ ret'.value.status = "WorkoutNotActiveError"
               /\ UNCHANGED <<_phase, _workout, _state>>

C7_HeldUntilClear ==
    (\/ _workout # None /\ _workout' # _workout
     \/ _state # None /\ _state' = None)
    => \E t \in Threads : BodyStep(t, "clear_workout")

\* C7: end_workout succeeds exactly in ACTIVE and COMPLETE (otherwise
\* WorkoutNotActiveError, nothing changed); ended_early is true iff the phase
\* was ACTIVE, segments_completed is the number of recorded results; the
\* phase becomes COMPLETE and workout and results stay held until
\* clear_workout.
C7_EndWorkout ==
    [][(\A t \in Threads : C7_Step(t)) /\ C7_HeldUntilClear]_vars

\* An active workout with one recorded result was ended early and is still
\* held, COMPLETE.
C7_Witness ==
    \E t \in Threads :
        /\ Returned(t, "end_workout") /\ ret.value.status = "ok"
        /\ ret.value.ended_early
        /\ ret.value.segments_completed = 1
        /\ _phase = COMPLETE
        /\ _workout = Workout(2)
        /\ Len(_state.segments_completed) = 1

(* ------------------------------- C8 ----------------------------------- *)
C8_Step(t) ==
    (BodyStep(t, "end_workout") /\ _phase = COMPLETE)
    => /\ Returns(t, "end_workout")
       /\ ret'.value.status = "ok"
       /\ ~ret'.value.ended_early
       /\ ret'.value.workout_id = _workout.workout_id
       /\ ret'.value.segments_completed = Len(_state.segments_completed)
       /\ ret'.value.segments = _state.segments_completed
       /\ UNCHANGED <<_phase, _workout, _state>>

\* What the next end_workout call would report agrees with this call's.
C8_NextCallSame(t) ==
    (BodyStep(t, "end_workout") /\ ret'.value.status = "ok")
    => /\ ~summary(now)'.ended_early
       /\ summary(now)'.workout_id = ret'.value.workout_id
       /\ summary(now)'.segments_completed = ret'.value.segments_completed
       /\ summary(now)'.segments = ret'.value.segments

\* C8: once COMPLETE, end_workout is idempotent: it succeeds with
\* ended_early=false, reports the same workout id, count and list of results
\* as the call before it, and changes nothing.
C8_EndIdempotent ==
    [][\A t \in Threads : C8_Step(t) /\ C8_NextCallSame(t)]_vars

\* end_workout has just reported, with ended_early=false, a two-segment
\* workout that an earlier end_workout had ended after one segment.
C8_Witness ==
    \E t \in Threads :
        /\ Returned(t, "end_workout") /\ ret.value.status = "ok"
        /\ ~ret.value.ended_early
        /\ Len(_workout.segments) = 2
        /\ Len(ret.value.segments) = 1
        /\ _phase = COMPLETE

(* ------------------------------- C9 ----------------------------------- *)
C9_Step(t) ==
    /\ BodyStep(t, "clear_workout")
         => /\ Returns(t, "clear_workout")
            /\ ret'.value.status = "ok"
            /\ _phase' = NO_WORKOUT
            /\ _workout' = None
            /\ _state' = None
    /\ (BodyStep(t, "create_workout") /\ _phase = NO_WORKOUT)
         => /\ ret'.value.status = "ok"
            /\ _phase' = CREATED
    /\ (BodyStep(t, "start_workout") /\ _phase = CREATED)
         => /\ _state'.workout = _workout
            /\ _state'.current_segment_idx = 0
            /\ _state'.segments_completed = <<>>

C9_NothingLeft ==
    (_phase = NO_WORKOUT) => (_workout = None /\ _state = None)

\* C9: clear_workout never fails and from every phase leaves NO_WORKOUT with
\* no workout and no execution state, so the next create_workout succeeds
\* and the next start begins at index 0 with no results.
C9_ClearResets ==
    [][(\A t \in Threads : C9_Step(t)) /\ C9_NothingLeft']_vars

\* clear_workout has just dropped a workout that had been started (the clock
\* was read after its start).
C9_Witness ==
    \E t \in Threads :
        /\ Returned(t, "clear_workout") /\ ret.value.status = "ok"
        /\ _phase = NO_WORKOUT /\ _workout = None /\ _state = None
        /\ now > 0

(* ------------------------------- C10 ---------------------------------- *)
\* C10: get_status never raises in any reachable state, and reports
\* has_active_workout=true exactly when the phase is ACTIVE (false in
\* NO_WORKOUT).
C10_GetStatusNeverRaises ==
    \A t \in Threads :
        Returned(t, "get_status")
        => /\ ret.value.status = "ok"
           /\ ret.value.has_active_workout <=> (_phase = ACTIVE)

(* ------------------------------- C11 ---------------------------------- *)
ZeroSegments == _workout # None /\ Len(_workout.segments) = 0

C11_Step(t) ==
    /\ (BodyStep(t, "create_workout") /\ _phase = NO_WORKOUT)
         => ret'.value.status = "ok"
    /\ (BodyStep(t, "start_workout") /\ _phase = CREATED /\ ZeroSegments)
         => /\ ret'.value.status = "ok"
            /\ _phase' = ACTIVE
    /\ (/\ pc[t] = "locked" /\ op[t] = "advance_segment" /\ pc'[t] # "locked"
        /\ _phase = ACTIVE /\ ZeroSegments)
         => pc'[t] = "advancing"
    /\ (MoveStep(t) /\ ZeroSegments)
         => /\ ret'.value.status = "ok"
            /\ ret'.value.workout_complete
            /\ ret'.value.now_on = None
            /\ _phase' = COMPLETE

\* C11: a workout with zero segments is legal: create_workout and
\* start_workout succeed on it, and the first advance_segment succeeds and
\* completes it (phase COMPLETE, workout_complete=true, now_on=None).
C11_ZeroSegmentWorkoutLegal ==
    [][\A t \in Threads : C11_Step(t)]_vars

(* ------------------------------- C12 ---------------------------------- *)
\* C12: in every reachable state whose phase is ACTIVE,
\* 0 <= current_segment_idx < len(workout.segments): the current segment is
\* defined while the workout is active.
C12_IndexInRange ==
    (_phase = ACTIVE)
    => /\ _state # None
       /\ 0 <= _state.current_segment_idx
       /\ _state.current_segment_idx < Len(_workout.segments)

(* ------------------------------- C13 ---------------------------------- *)
InSection(t) == pc[t] \in {"locked", "advancing"}

C13_OneAtATime ==
    /\ \A t, u \in Threads : (InSection(t) /\ InSection(u)) => t = u
    /\ \A t \in Threads : InSection(t) <=> _lock = t

C13_ReleasedOnExit(t) ==
    (InSection(t) /\ pc'[t] = "idle")
    => /\ ret'.thread = t
       /\ _lock' = 0

\* C13: at most one operation is inside its read-decide-mutate-return
\* section at any time (the section is entered only with the lock, and the
\* lock is held exactly by the thread inside it); every exit, by return or
\* by exception, releases the lock; so under fair scheduling every invoked
\* operation eventually returns and the lock is never left held.
C13_LockDiscipline ==
    /\ []C13_OneAtATime
    /\ [][\A t \in Threads : C13_ReleasedOnExit(t)]_vars
    /\ \A t \in Threads : (pc[t] # "idle") ~> (pc[t] = "idle")
    /\ (_lock # 0) ~> (_lock = 0)

\* A call has just failed with an exception while another caller waits for
\* the lock, and the lock is free for it.
C13_Witness ==
    \E t, u \in Threads :
        /\ t # u
        /\ ret.thread = t
        /\ ret.value.status \in {"WorkoutExistsError", "NoWorkoutError",
                                 "WorkoutAlreadyActiveError",
                                 "WorkoutNotActiveError", "IndexError"}
        /\ pc[u] = "wait"
        /\ _lock = 0

(* ------------------------------- C14 ---------------------------------- *)
\* What a step may do to the result list of a started workout: nothing, one
\* entry added at the end by the recording part of an advance or skip, or
\* the whole state dropped by clear_workout.
C14_Step ==
    Started
    => \/ /\ Started'
          /\ _state'.segments_completed = _state.segments_completed
       \/ \E t \in Threads :
            /\ pc[t] = "locked" /\ op[t] \in AdvanceOps
            /\ pc'[t] = "advancing"
            /\ Started'
            /\ Len(_state'.segments_completed) =
                   Len(_state.segments_completed) + 1
            /\ SubSeq(_state'.segments_completed, 1,
                      Len(_state.segments_completed)) =
                   _state.segments_completed
            /\ _state'.segments_completed[Len(_state'.segments_completed)] =
                   local'[t]
       \/ /\ ~Started'
          /\ \E t \in Threads : BodyStep(t, "clear_workout")

\* The call that added an entry succeeds and reports that entry.
C14_AddedBySuccess(t) ==
    MoveStep(t)
    => /\ ret'.value.status = "ok"
       /\ ret'.value.completed = local[t]
       /\ local[t] = _state.segments_completed[Len(_state.segments_completed)]

\* One entry per segment advanced past, in order, of that segment's kind.
C14_OnePerSegment ==
    Started
    => /\ IndicesInOrder(_state.segments_completed)
       /\ \A k \in 1..Len(_state.segments_completed) :
            /\ k <= Len(_workout.segments)
            /\ _state.segments_completed[k].segment_type =
                   _workout.segments[k].type
       /\ (\A t \in Threads : pc[t] # "advancing")
            => Len(_state.segments_completed) =
                   _state.current_segment_idx
                   + (IF /\ _phase = COMPLETE
                         /\ Len(_state.segments_completed) =
                                Len(_workout.segments)
                         /\ Len(_workout.segments) > 0
                      THEN 1 ELSE 0)

\* C14: segments_completed is append-only with exactly one SegmentResult per
\* segment advanced past: only a successful advance_segment/skip_segment
\* adds an entry (exactly one, at the end), and no operation other than
\* clear_workout removes, reorders or alters an existing entry.
C14_AppendOnly ==
    [][/\ C14_Step
       /\ \A t \in Threads : C14_AddedBySuccess(t)
       /\ C14_OnePerSegment']_vars

\* end_workout has just reported the two results of a completed two-segment
\* workout as they were recorded: the first skipped, the second advanced.
C14_Witness ==
    \E t \in Threads :
        /\ Returned(t, "end_workout") /\ ret.value.status = "ok"
        /\ ~ret.value.ended_early
        /\ Len(ret.value.segments) = 2
        /\ ret.value.segments = _state.segments_completed
        /\ ret.value.segments[1].skipped /\ ~ret.value.segments[2].skipped

(* ------------------------------- C15 ---------------------------------- *)
\* The recording part of advance_segment(a.stroke_count, a.distance_m,
\* a.avg_stroke_rate, a.skipped) as called by thread t.
C15_RecordEffect(t, a) ==
    IF _phase # ACTIVE
    THEN /\ ret'.thread = t
         /\ ret'.value.status = "WorkoutNotActiveError"
         /\ pc'[t] = "idle"
         /\ UNCHANGED <<_phase, _workout, _state>>
    ELSE IF ~HasCurrentSegment(_state)
    THEN /\ ret'.thread = t
         /\ ret'.value.status = "IndexError"
         /\ pc'[t] = "idle"
         /\ UNCHANGED <<_phase, _workout, _state>>
    ELSE /\ pc'[t] = "advancing"
         /\ local'[t] = [segment_index |-> _state.current_segment_idx,
                         segment_type |-> current_segment(_state).type,
                         started_at |-> _state.segment_started_at,
                         ended_at |-> now',
                         actual_duration_seconds |->
                             now' - _state.segment_started_at,
                         actual_distance_m |-> a.distance_m,
                         stroke_count |-> a.stroke_count,
                         avg_stroke_rate |-> a.avg_stroke_rate,
                         skipped |-> a.skipped]
         /\ _state' = [_state EXCEPT !.segments_completed =
                                         Append(@, local'[t])]
         /\ UNCHANGED <<_phase, _workout>>

\* The rest of the call: the phase and cursor change and the return value,
\* which depend on the state and the recorded result only.
C15_MoveEffect(t) ==
    /\ ret'.thread = t
    /\ ret'.value.status = "ok"
    /\ ret'.value.completed = local[t]
    /\ IF _state.current_segment_idx >= Len(_workout.segments) - 1
       THEN /\ _phase' = COMPLETE
            /\ _state' = _state
            /\ ret'.value.workout_complete
            /\ ret'.value.now_on = None
       ELSE /\ _phase' = _phase
            /\ _state' = [_state EXCEPT
                            !.current_segment_idx = @ + 1,
                            !.segment_started_at = local[t].ended_at]
            /\ ~ret'.value.workout_complete
            /\ ret'.value.now_on =
                   SegmentToDict(_workout.segments[_state.current_segment_idx + 2])

C15_Step(t) ==
    /\ (pc[t] = "locked" /\ op[t] = "skip_segment" /\ pc'[t] # "locked")
         => C15_RecordEffect(t, [stroke_count |-> 0, distance_m |-> 0,
                                 avg_stroke_rate |-> 0, skipped |-> TRUE])
    /\ (pc[t] = "locked" /\ op[t] = "advance_segment" /\ pc'[t] # "locked")
         => \E a \in AdvanceArgs : C15_RecordEffect(t, a)
    /\ (MoveStep(t) /\ op[t] \in AdvanceOps)
         => C15_MoveEffect(t)

\* C15: skip_segment has exactly the effect of advance_segment(stroke_count
\* = 0, distance_m = 0, avg_stroke_rate = 0, skipped = true): the same phase
\* and cursor change, the same error in the same phases, and an appended
\* SegmentResult with skipped=true and zero stroke count, distance and rate.
C15_SkipIsAdvance ==
    [][\A t \in Threads : C15_Step(t)]_vars

\* skip_segment has just moved a two-segment workout from segment 0 to
\* segment 1, reporting a skipped result with zero metrics.
C15_Witness ==
    \E t \in Threads :
        /\ Returned(t, "skip_segment") /\ ret.value.status = "ok"
        /\ ret.value.completed.skipped
        /\ ret.value.completed.stroke_count = 0
        /\ ret.value.completed.actual_distance_m = 0
        /\ ret.value.completed.avg_stroke_rate = 0
        /\ ~ret.value.workout_complete
        /\ _phase = ACTIVE
        /\ _state.current_segment_idx = 1
        /\ _state.segments_completed = <<ret.value.completed>>

(* ------------------------ reading the monitor ------------------------- *)
\* This step is a call of check().
CheckStep == chk'.op = "check"

\* check() has a segment to evaluate: the phase is ACTIVE and the cursor is
\* on a segment of the workout.
Evaluable == _phase = ACTIVE /\ _state # None /\ HasCurrentSegment(_state)

\* The step just taken was a check() that went past the grace period and
\* returned its metrics.
Evaluated == chk.op = "check" /\ "metrics" \in DOMAIN chk.value

(* ------------------------------- C16 ---------------------------------- *)
\* C16: while the phase is not ACTIVE (NO_WORKOUT, CREATED or COMPLETE),
\* check() returns should_transition=false with no reason and no metrics,
\* raises nothing, and leaves the monitor's debounce fields unchanged.
C16_InactiveCheck ==
    [][(CheckStep /\ _phase \in {NO_WORKOUT, CREATED, COMPLETE})
       => /\ chk'.value = [should_transition |-> FALSE]
          /\ chk'.get_state_calls = 0
          /\ monitor'._last_swimming_state = monitor._last_swimming_state
          /\ monitor'._swimming_state_changed_at =
                 monitor._swimming_state_changed_at]_vars

\* check() has just declined on a completed workout whose monitor had
\* recorded a swimming change while the workout was active.
C16_Witness ==
    /\ chk.op = "check"
    /\ chk.value = [should_transition |-> FALSE]
    /\ _phase = COMPLETE
    /\ monitor._last_swimming_state
    /\ monitor._swimming_state_changed_at # None

(* ------------------------------- C17 ---------------------------------- *)
\* The current segment became current when its segment_started_at says: at
\* the clock reading of the start_workout or of the non-final advance that
\* put the cursor on it.
C17_BecomesCurrent ==
    /\ (pc[Commander] = "locked" /\ op[Commander] = "start_workout"
        /\ _phase = CREATED)
         => _state'.segment_started_at = now'
    /\ (pc[Commander] = "advancing" /\ _state # None /\ _state' # None
        /\ _state'.current_segment_idx # _state.current_segment_idx)
         => /\ _state'.segment_started_at = local[Commander].ended_at
            /\ _state'.segment_started_at = now'
    /\ (_state # None /\ _state' # None
        /\ _state'.segment_started_at # _state.segment_started_at)
         => _state'.current_segment_idx # _state.current_segment_idx

C18_Order ==
    [warmup |-> <<"duration_elapsed", "swimming_stopped">>,
     work |-> <<"duration_elapsed", "distance_reached", "swimming_stopped">>,
     rest |-> <<"duration_elapsed", "swimming_started">>,
     cooldown |-> <<"duration_elapsed", "swimming_stopped">>]

\* The value `swimming` has been the observed one for the debounce time, as
\* this check() finds it: a value that differs from the remembered one has
\* been stable for no time at all.
C18_Stable(swimming) ==
    IF swimming # monitor._last_swimming_state
    THEN monitor.swimming_debounce_seconds <= 0
    ELSE /\ monitor._swimming_state_changed_at # None
         /\ now' - monitor._swimming_state_changed_at.some
                >= monitor.swimming_debounce_seconds

\* The trigger is satisfied in this check(), by the metrics it returns.
C18_Satisfied(trigger) ==
    LET segment == current_segment(_state)
        m == chk'.value.metrics
    IN  \/ /\ trigger = "duration_elapsed"
           /\ Truthy(segment.target_duration_seconds)
           /\ m.elapsed_seconds >= segment.target_duration_seconds.some
        \/ /\ trigger = "distance_reached"
           /\ Truthy(segment.target_distance_m)
           /\ m.distance_m >= segment.target_distance_m.some * 10
        \/ /\ trigger = "swimming_stopped"
           /\ ~m.is_swimming /\ C18_Stable(FALSE)
        \/ /\ trigger = "swimming_started"
           /\ m.is_swimming /\ C18_Stable(TRUE)

C19_Eligible ==
    [warmup |-> {"duration_elapsed", "swimming_stopped"},
     work |-> {"duration_elapsed", "distance_reached", "swimming_stopped"},
     rest |-> {"duration_elapsed", "swimming_started"},
     cooldown |-> {"duration_elapsed", "swimming_stopped"}]

\* C19: check() only reports a reason that is eligible for the current
\* segment's kind: rest never yields swimming_stopped or distance_reached,
\* warmup and cooldown never distance_reached or swimming_started, work
\* never swimming_started.
C19_OnlyEligibleReasons ==
    [][(/\ CheckStep
        /\ "should_transition" \in DOMAIN chk'.value
        /\ chk'.value.should_transition)
       => /\ Evaluable
          /\ chk'.value.reason \in C19_Eligible[current_segment(_state).type]]_vars

\* On a rest segment check() has just reported nothing although the distance
\* target is met and the swimmer has been seen not swimming for the debounce
\* time.
C19_Witness ==
    /\ Evaluated /\ ~chk.value.should_transition
    /\ current_segment(_state).type = "rest"
    /\ current_segment(_state).target_distance_m = Some(2)
    /\ chk.value.metrics.distance_m >= 20
    /\ ~chk.value.metrics.is_swimming
    /\ ~monitor._last_swimming_state
    /\ monitor._swimming_state_changed_at # None
    /\ now - monitor._swimming_state_changed_at.some
           >= monitor.swimming_debounce_seconds

(* ------------------------------- C20 ---------------------------------- *)
\* C20: outside the grace period duration_elapsed is reported exactly when
\* the current segment has a target_duration_seconds (any non-negative
\* integer) and elapsed >= that target; a segment without a duration target
\* never reports it.
C20_DurationElapsed ==
    [][(CheckStep /\ Evaluable /\ "metrics" \in DOMAIN chk'.value)
       => LET target == current_segment(_state).target_duration_seconds
          IN  (/\ chk'.value.should_transition
               /\ chk'.value.reason = "duration_elapsed")
              <=> (/\ target # None
                   /\ chk'.value.metrics.elapsed_seconds >= target.some)]_vars

(* ------------------------------- C21 ---------------------------------- *)
\* C21: on a work segment, outside the grace period and with the duration
\* trigger not satisfied, distance_reached is reported exactly when the
\* segment has a target_distance_m and (stroke_count -
\* segment_stroke_count_start) x dps_ratio >= that target (both sides in
\* tenths of a metre).
C21_DistanceReached ==
    [][(/\ CheckStep /\ Evaluable /\ "metrics" \in DOMAIN chk'.value
        /\ current_segment(_state).type = "work"
        /\ LET d == current_segment(_state).target_duration_seconds
           IN  ~(d # None /\ chk'.value.metrics.elapsed_seconds >= d.some))
       => LET target == current_segment(_state).target_distance_m
              strokes == chk'.vision.stroke_count
                         - _state.segment_stroke_count_start
          IN  (/\ chk'.value.should_transition
               /\ chk'.value.reason = "distance_reached")
              <=> (/\ target # None
                   /\ strokes * monitor.dps_ratio >= target.some * 10)]_vars

(* ------------------------------- C22 ---------------------------------- *)
SwimmingReasons == {"swimming_stopped", "swimming_started"}

\* This check() reports one of the swimming triggers.
ReportsSwimming ==
    /\ CheckStep
    /\ "should_transition" \in DOMAIN chk'.value
    /\ chk'.value.should_transition
    /\ chk'.value.reason \in SwimmingReasons

\* C22: with swimming_debounce_seconds = D > 0, a flip of the live
\* is_swimming signal that is reversed in less than D never makes a check()
\* report swimming_stopped or swimming_started, in whichever segment and
\* for every grace period, whichever polls fell in a grace period or
\* returned on an earlier trigger. The signal may be reversed at any time,
\* so a report made while the value read has lasted less than D is a report
\* caused by a flip that is reversed in less than D: a swimming trigger is
\* reported only once the signal has kept the value read for D.
C22_NoTransientFlip ==
    [][(ReportsSwimming /\ monitor.swimming_debounce_seconds > 0)
       => now' - store.since >= monitor.swimming_debounce_seconds]_vars

(* ------------------------------- C23 ---------------------------------- *)
\* C23: check() reports swimming_stopped only if the value it just read is
\* is_swimming=false and at least swimming_debounce_seconds have passed
\* since the monitor last recorded a change of the swimming value, and
\* swimming_started only if it read is_swimming=true under the same time
\* condition; a monitor that has never recorded a change reports neither.
C23_DebouncedReport ==
    [][ReportsSwimming
       => /\ chk'.get_state_calls = 1
          /\ chk'.vision.is_swimming =
                 (chk'.value.reason = "swimming_started")
          /\ monitor'._swimming_state_changed_at # None
          /\ now' - monitor'._swimming_state_changed_at.some
                 >= monitor.swimming_debounce_seconds]_vars

\* With a debounce time of one tick, check() has just reported
\* swimming_stopped one tick after the monitor recorded the change to
\* not-swimming.
C23_Witness ==
    /\ Evaluated /\ chk.value.should_transition
    /\ chk.value.reason = "swimming_stopped"
    /\ ~chk.vision.is_swimming
    /\ monitor.swimming_debounce_seconds = 1
    /\ monitor._swimming_state_changed_at # None
    /\ now - monitor._swimming_state_changed_at.some = 1

(* ------------------------------- C24 ---------------------------------- *)
\* C24: every check() call that reads the live signal leaves the monitor's
\* remembered swimming value equal to the is_swimming it just read, and
\* restarts the change timestamp (at a clock reading of this call) whenever
\* that value differs from the one remembered before, also when the call
\* reports no trigger or returns on duration_elapsed or distance_reached.
C24_RememberedOnEveryRead ==
    [][(CheckStep /\ chk'.get_state_calls >= 1)
       => /\ monitor'._last_swimming_state = chk'.vision.is_swimming
          /\ (chk'.vision.is_swimming # monitor._last_swimming_state)
               => /\ monitor'._swimming_state_changed_at # None
                  /\ monitor'._swimming_state_changed_at.some >= now
                  /\ monitor'._swimming_state_changed_at.some <= now']_vars

(* ------------------------------- C25 ---------------------------------- *)
\* This step makes a segment the current one: a start_workout that succeeds,
\* or an advance that moves the cursor.
BecomesCurrent ==
    \/ /\ BodyStep(Commander, "start_workout")
       /\ _phase = CREATED /\ _phase' = ACTIVE
    \/ /\ MoveStep(Commander)
       /\ _state # None /\ _state' # None
       /\ _state'.current_segment_idx # _state.current_segment_idx

\* C25: whenever a segment becomes current (at start_workout and after
\* every non-final advance_segment), segment_stroke_count_start equals the
\* cumulative stroke count of the live signal at that moment, so that the
\* stroke counts reported for a segment are those made since it started.
C25_StrokeCountStart ==
    [][BecomesCurrent
       => _state'.segment_stroke_count_start = store.state.stroke_count]_vars

(* ------------------------------- C26 ---------------------------------- *)
\* This step is a call of one of the observers.
ObserverStep ==
    \/ chk'.op \in {"check", "get_metrics_for_advance"}
    \/ BodyStep(Commander, "get_status")

\* C26: the observers never change the workout: check(),
\* get_metrics_for_advance() and get_status() leave the phase, the stored
\* workout and the execution state (index, segment_started_at,
\* total_started_at, segments_completed) as they were in every state;
\* check() changes at most the monitor's two debounce fields, and
\* get_metrics_for_advance() changes nothing at all.
C26_ObserversChangeNothing ==
    [][ObserverStep
       => /\ _phase' = _phase
          /\ _workout' = _workout
          /\ _state' = _state
          /\ store'.state = store.state
          /\ (chk'.op = "check")
               => monitor' =
                      [monitor EXCEPT
                         !._last_swimming_state =
                             monitor'._last_swimming_state,
                         !._swimming_state_changed_at =
                             monitor'._swimming_state_changed_at]
          /\ (chk'.op # "check") => monitor' = monitor]_vars

\* get_metrics_for_advance() has just reported the strokes of an active
\* workout's second segment, reading a swimming value that differs from the
\* one the monitor remembers, and the monitor still remembers the old one.
C26_Witness ==
    /\ chk.op = "get_metrics_for_advance"
    /\ chk.get_state_calls = 1
    /\ chk.value.stroke_count > 0
    /\ _phase = ACTIVE
    /\ _state.current_segment_idx = 1
    /\ Len(_state.segments_completed) = 1
    /\ monitor._swimming_state_changed_at # None
    /\ chk.vision.is_swimming # monitor._last_swimming_state

(* ------------------------------- C27 ---------------------------------- *)
\* C27: each check() calls get_state() of the live signal source at most
\* once; the is_swimming of its metrics and of its swimming triggers and
\* the stroke count behind its stroke_count and distance_m are those of
\* that one read; and it calls get_state() zero times when it returns
\* because the phase is not ACTIVE or because of the grace period.
C27_SingleRead ==
    [][CheckStep
       => /\ chk'.get_state_calls <= 1
          /\ (_phase # ACTIVE) => chk'.get_state_calls = 0
          /\ (/\ "reason" \in DOMAIN chk'.value
              /\ chk'.value.reason = "grace_period")
               => chk'.get_state_calls = 0
          /\ ("metrics" \in DOMAIN chk'.value)
               => LET metrics == chk'.value.metrics
                      vision == chk'.vision
                  IN  /\ chk'.get_state_calls = 1
                      /\ metrics.is_swimming = vision.is_swimming
                      /\ metrics.stroke_count =
                             vision.stroke_count
                             - _state.segment_stroke_count_start
                      /\ metrics.distance_m =
                             metrics.stroke_count * monitor.dps_ratio
                      /\ (chk'.value.should_transition
                          /\ chk'.value.reason \in SwimmingReasons)
                           => vision.is_swimming =
                                  (chk'.value.reason = "swimming_started")
          /\ (monitor'._last_swimming_state # monitor._last_swimming_state)
               => /\ chk'.get_state_calls = 1
                  /\ monitor'._last_swimming_state =
                         chk'.vision.is_swimming]_vars

\* A check() past the grace period of an active segment has read the
\* signal once, with strokes counted and the swimmer swimming, and reports
\* distance_reached on that read.
C27_Witness ==
    /\ chk.op = "check"
    /\ chk.get_state_calls = 1
    /\ _phase = ACTIVE
    /\ chk.vision.is_swimming
    /\ chk.vision.stroke_count > 0
    /\ chk.value.should_transition
    /\ chk.value.reason = "distance_reached"
    /\ chk.value.metrics.stroke_count = chk.vision.stroke_count

(* ------------------------------- C28 ---------------------------------- *)
\* This step ends a tool call: a value or an exception reaches the client.
ToolReturns == out'.tool # "none"

IsErrorDict(value) == value.status = "ok" /\ "error" \in DOMAIN value

\* C28: every tool of the adapter layer, called in any phase and in any
\* order, returns a dictionary and never raises; and a violated
\* precondition gives a dictionary with the key 'error': an invalid segment
\* type (the create_workout tool returns before it calls the state
\* machine, and a call that goes on holds segments of the four types only),
\* create_workout over a stored workout, start_workout outside CREATED,
\* skip_segment outside ACTIVE, end_workout outside ACTIVE and COMPLETE.
C28_ToolsReturnDicts ==
    [][/\ ToolReturns
          => /\ out'.tool \in Tools
             /\ out'.value.status = "ok"
             /\ (out'.tool = "create_workout" /\ ret' = NoRet)
                  => IsErrorDict(out'.value)
             /\ (out'.tool = "create_workout" /\ _phase # NO_WORKOUT)
                  => IsErrorDict(out'.value)
             /\ (out'.tool = "start_workout" /\ _phase # CREATED)
                  => IsErrorDict(out'.value)
             /\ (out'.tool = "skip_segment" /\ _phase # ACTIVE)
                  => IsErrorDict(out'.value)
             /\ (out'.tool = "end_workout"
                 /\ _phase \notin {ACTIVE, COMPLETE})
                  => IsErrorDict(out'.value)
       /\ \A t \in Threads :
             (tool'[t] # None /\ tool'[t].workout # None)
              => \A i \in 1..Len(tool'[t].workout.segments) :
                    tool'[t].workout.segments[i].type
                        \in {SegmentType[k] : k \in 1..4}]_vars

\* The start_workout tool has just returned an error dict for an exception
\* that is none of the state machine's own: the IndexError of a start on a
\* workout with no segment.
C28_Witness ==
    /\ out.tool = "start_workout"
    /\ IsErrorDict(out.value)
    /\ out.value.error = "IndexError"
    /\ ret.value.status = "IndexError"
    /\ _phase = ACTIVE

(* ------------------------------- C29 ---------------------------------- *)
\* This step is the return of an end_workout tool call with a summary.
EndSummary ==
    out'.tool = "end_workout" /\ "summary" \in DOMAIN out'.value

\* The summary of a workout of K segments, ended after j skips that the
\* client made through the skip_segment tool: segments_completed is j, and
\* ended_early is false exactly when j = K.
SummaryOfSkips(S, j) ==
    /\ j <= S.segments_total
    /\ S.segments_completed = j
    /\ Len(S.segments) = j
    /\ \A k \in 1..j : S.segments[k].skipped
    /\ (~S.ended_early) <=> (j = S.segments_total)

C30_DistinctWorkoutIds ==
    \A t \in Threads :
        (/\ tool[t] # None
         /\ tool[t].name = "create_workout"
         /\ _workout # None)
        => tool[t].workout.workout_id # _workout.workout_id

(* ------------------------------- C33 ---------------------------------- *)
\* C33: Workout.from_dict(w.to_dict()) reproduces w field for field, for
\* workouts whose segments mix all, some and none of the optional targets:
\* decoding the dict that save() wrote for w gives the id, name, creation
\* time and creator of w and its segments in order, each with its kind, its
\* notes, every optional target absent where it was absent and present with
\* the same value where it was present (0 stays 0), and the same ordered
\* pair as target_stroke_rate.
C33_RoundTrip ==
    [][(ret'.op = "save")
       => LET w == ret'.args
              data == template_dir'[ret'.value.path].data
              back == Workout_from_dict(data)
          IN  /\ data = Workout_to_dict(w)
              /\ back = w
              /\ back.workout_id = w.workout_id
              /\ back.name = w.name
              /\ back.created_at = w.created_at
              /\ Len(back.segments) = Len(w.segments)
              /\ \A i \in 1..Len(w.segments) :
                    /\ back.segments[i].type = w.segments[i].type
                    /\ back.segments[i].target_duration_seconds
                           = w.segments[i].target_duration_seconds
                    /\ back.segments[i].target_distance_m
                           = w.segments[i].target_distance_m
                    /\ back.segments[i].target_stroke_rate
                           = w.segments[i].target_stroke_rate]_vars

\* save() has just written a workout whose three segments have all, one
\* (of value 0) and none of the optional targets: the file holds the stroke
\* rate as a list and the creation time as text.
C33_Witness ==
    /\ ret.op = "save"
    /\ ret.args.segments = <<AllTargets, SomeTargets, NoTargets>>
    /\ ret.args.segments[2].target_duration_seconds = Some(0)
    /\ template_dir[ret.value.path].data.segments[1].target_stroke_rate
           = list(<<0, 1>>)
    /\ template_dir[ret.value.path].data.created_at # ret.args.created_at

(* ------------------------------- C31 ---------------------------------- *)
\* Some file of directory dir holds a template with this id.
Stored(dir, workout_id) ==
    \E f \in DOMAIN dir :
        /\ dir[f].kind = "json"
        /\ "workout_id" \in DOMAIN dir[f].data
        /\ dir[f].data.workout_id = workout_id

\* C31: after any sequence of save and delete calls, get(id) returns a workout equal to the last one saved under
\* that id if one was saved and not deleted since, and not-found otherwise;
\* delete(id) returns true exactly when a template with that id was stored,
\* and after a delete(id) that returned true get(id) returns not-found (the
\* client forgets the id at such a delete); and a save leaves the last
\* workout saved under every other id in the directory.
C31_KeyedStore ==
    [][/\ (ret'.op = "get")
            => ret'.value =
                   [status |-> "ok", found |-> client.saved[ret'.args]]
       /\ (ret'.op = "delete")
            => /\ ret'.value.status = "ok"
               /\ ret'.value.deleted <=> Stored(template_dir, ret'.args)
       /\ (ret'.op = "save")
            => \A id \in TemplateIds \ {ret'.args.workout_id} :
                  (client.saved[id] # None)
                   => \E f \in DOMAIN template_dir' :
                         template_dir'[f] =
                             JsonFile(Workout_to_dict(client.saved[id]))]_vars

(* ------------------------------- C32 ---------------------------------- *)
\* The templates of directory dir that can be read: the workouts of the
\* files that hold a JSON object with the keys of a workout.
Readable(dir) ==
    {Workout_from_dict(dir[f].data) :
        f \in {g \in DOMAIN dir :
                  /\ dir[g].kind = "json"
                  /\ "list" \notin DOMAIN dir[g].data
                  /\ Complete(dir[g].data)}}

\* C32: list(limit) returns at most limit workouts, ordered by created_at
\* newest first, and they are the newest min(limit, number of readable
\* templates) stored templates; an unreadable or corrupt entry is skipped by
\* list and get and never makes them fail or hide the readable entries
\* (get(id) still returns a readable template with that id when there is
\* one).
C32_ListNewestFirst ==
    [][/\ (ret'.op = "list")
            => /\ ret'.value.status = "ok"
               /\ LET ts == ret'.value.templates
                      limit == ret'.args
                      n == Cardinality(Readable(template_dir))
                  IN  /\ Len(ts) <= limit
                      /\ Len(ts) = IF n < limit THEN n ELSE limit
                      /\ \A i \in 1..Len(ts) :
                            ts[i] \in Readable(template_dir)
                      /\ \A i, k \in 1..Len(ts) :
                            (i < k)
                             => /\ ts[i] # ts[k]
                                /\ NotAfter(ts[k].created_at,
                                            ts[i].created_at)
                      /\ \A w \in Readable(template_dir) :
                            (\A i \in 1..Len(ts) : ts[i] # w)
                             => \A i \in 1..Len(ts) :
                                   NotAfter(w.created_at, ts[i].created_at)
       /\ (ret'.op = "get")
            => /\ ret'.value.status = "ok"
               /\ IF \E w \in Readable(template_dir) :
                         w.workout_id = ret'.args
                  THEN /\ ret'.value.found \in Readable(template_dir)
                       /\ ret'.value.found.workout_id = ret'.args
                  ELSE ret'.value.found = None]_vars

(* ------------------------------- C34 ---------------------------------- *)
\* C34: in every reachable state the stored workout is present exactly when
\* the phase is not NO_WORKOUT; the execution state is present exactly when
\* the phase is ACTIVE or COMPLETE, and it refers to the stored workout; and
\* while the phase is ACTIVE the number of recorded SegmentResults equals
\* current_segment_idx, the k-th result carrying segment_index k (counted
\* from 0) - the count taken when no advance_segment is between its append
\* and its move of the cursor, which it makes in one hold of the lock.
C34_Ownership ==
    /\ (_workout # None) <=> (_phase # NO_WORKOUT)
    /\ (_state # None) <=> (_phase \in {ACTIVE, COMPLETE})
    /\ (_state # None) => _state.workout = _workout
    /\ (_phase = ACTIVE)
        => /\ IndicesInOrder(_state.segments_completed)
           /\ (\A t \in Threads : pc[t] # "advancing")
               => Len(_state.segments_completed)
                      = _state.current_segment_idx

\* An active workout on its second segment with one result recorded, the
\* lock free and both callers between calls.
C34_Witness ==
    /\ _phase = ACTIVE
    /\ _workout # None
    /\ _state.workout = _workout
    /\ _state.current_segment_idx = 1
    /\ Len(_state.segments_completed) = 1
    /\ _lock = 0
    /\ \A t \in Threads : pc[t] = "idle"

(* ------------------------------- C35 ---------------------------------- *)
\* The recorded intervals of a started workout lie end to end from
\* total_started_at on, up to the start of the current segment while the
\* phase is ACTIVE (and no advance_segment is between its append and its
\* move of the cursor), and none has a negative duration.
Tiled ==
    Started
    => LET rs == _state.segments_completed
       IN  /\ (Len(rs) >= 1)
                => rs[1].started_at = _state.total_started_at
           /\ \A k \in 1..Len(rs) - 1 :
                 rs[k].ended_at = rs[k + 1].started_at
           /\ (/\ _phase = ACTIVE
               /\ \A t \in Threads : pc[t] # "advancing")
                => _state.segment_started_at =
                       (IF Len(rs) >= 1 THEN rs[Len(rs)].ended_at
                        ELSE _state.total_started_at)
           /\ \A k \in 1..Len(rs) :
                 /\ rs[k].started_at <= rs[k].ended_at
                 /\ rs[k].actual_duration_seconds >= 0

\* C35: the recorded segment intervals tile the workout timeline: the first
\* result's started_at equals total_started_at, each result's ended_at
\* equals the next result's started_at, the last result's ended_at equals
\* the current segment_started_at while the phase is ACTIVE, every recorded
\* duration is >= 0 (the clock never goes back), and total_started_at never
\* changes after start_workout.
C35_Tiling ==
    /\ []Tiled
    /\ [][(Started /\ _state' # None)
           => _state'.total_started_at = _state.total_started_at]_vars

\* Two results recorded at different times: the first from the start of
\* the workout, the second from the end of the first to a later reading.
C35_Witness ==
    /\ Started
    /\ Len(_state.segments_completed) = 2
    /\ _state.segments_completed[1].started_at = _state.total_started_at
    /\ _state.segments_completed[2].started_at
           = _state.segments_completed[1].ended_at
    /\ _state.segments_completed[2].ended_at
           > _state.segments_completed[2].started_at

(* ------------------------------- C36 ---------------------------------- *)
\* C36: a tool call that returns an 'error' dictionary has changed
\* nothing: phase, stored workout, cursor and results are as before the
\* call, for every tool and in every phase, start_workout on a workout with
\* zero segments and create_workout with save_as_template=true and a failed
\* save included. The client's calls do not overlap, so the state before
\* the call is the state before the one locked body that the failing call
\* ran; a skip_segment that has appended its result returns no error.
C36_ErrorChangesNothing ==
    [][(ToolReturns /\ IsErrorDict(out'.value))
       => /\ _phase' = _phase
          /\ _workout' = _workout
          /\ _state' = _state
          /\ \A t \in Threads : pc[t] # "advancing"]_vars

(* ------------------------------- C37 ---------------------------------- *)
\* C37: after the end_workout tool returns a summary the state machine is
\* in NO_WORKOUT with no stored workout and no execution state; a
\* create_workout tool call that reaches the state machine in NO_WORKOUT is
\* accepted (the workout is stored, and the tool returns its id unless it
\* was asked to save a template), and an end_workout tool call in
\* NO_WORKOUT returns an error; and using only the tools NO_WORKOUT is
\* reachable again from every reachable state: a client that keeps calling
\* start_workout and end_workout comes back to NO_WORKOUT again and again.
C37_Restartable ==
    /\ [][((EndSummary)
              => (/\ _phase' = NO_WORKOUT
                  /\ _workout' = None
                  /\ _state' = None))
          /\ ((/\ out'.tool = "create_workout"
               /\ ret'.op = "create_workout"
               /\ _phase = NO_WORKOUT)
              => (/\ ret'.value.status = "ok"
                  /\ _phase' = CREATED
                  /\ _workout' = tool[Commander].workout
                  /\ \/ tool[Commander].save_as_template
                     \/ /\ ~IsErrorDict(out'.value)
                        /\ out'.value.workout_id = _workout'.workout_id))
          /\ ((out'.tool = "end_workout" /\ _phase = NO_WORKOUT)
              => IsErrorDict(out'.value))]_vars
    /\ []<>(_phase = NO_WORKOUT)

\* end_workout has just returned the summary of a workout ended early, and
\* the state machine holds nothing.
C37_Witness ==
    /\ out.tool = "end_workout"
    /\ "summary" \in DOMAIN out.value
    /\ out.value.summary.ended_early
    /\ out.value.summary.segments_completed = 1
    /\ _phase = NO_WORKOUT
    /\ _workout = None
    /\ _state = None

(* ------------------------------- C38 ---------------------------------- *)
\* C38: with one poll loop (check, get_metrics_for_advance, advance_segment
\* on every should_transition) beside the user's skip_segment and
\* end_workout commands, every advance the loop performs completes the
\* segment index that its preceding check() evaluated.
C38_AdvancesWhatWasChecked ==
    [][(pc[Poller] = "locked" /\ pc'[Poller] = "advancing")
          => local'[Poller].segment_index = poll.evaluated]_vars

(* ------------------------------- C39 ---------------------------------- *)
\* Every segment of w has a target duration of at least one second.
AllTimed(w) ==
    \A k \in 1..Len(w.segments) :
        /\ w.segments[k].target_duration_seconds # None
        /\ w.segments[k].target_duration_seconds.some >= 1

Max(a, b) == IF a >= b THEN a ELSE b

\* The clock reaches the time at which the current segment has run for its
\* target duration and for the grace period (no segment is left to wait
\* for when there is no current one).
DueInTime ==
    HasCurrentSegment(_state)
        => _state.segment_started_at
           + Max(current_segment(_state).target_duration_seconds.some,
                 monitor.grace_period_seconds) <= MaxTime

\* C39: a started workout whose segments all have a target duration of at
\* least one second, polled by a single loop while time keeps advancing,
\* eventually reaches COMPLETE whatever the live signal does: each segment
\* that becomes due within the clock is left, the last one for COMPLETE; and
\* every segment is left no earlier than max(grace_period_seconds, 0) after
\* it started.
C39_TimedWorkoutCompletes ==
    /\ [](Started =>
            \A k \in 1..Len(_state.segments_completed) :
                _state.segments_completed[k].ended_at
                - _state.segments_completed[k].started_at
                    >= Max(monitor.grace_period_seconds, 0))
    /\ \A i \in 0..MaxSegments :
          (/\ _phase = ACTIVE
           /\ Started
           /\ AllTimed(_workout)
           /\ _state.current_segment_idx = i
           /\ DueInTime)
          ~> (\/ _phase = COMPLETE
              \/ Started /\ _state.current_segment_idx > i)

(* ------------------------------- C40 ---------------------------------- *)
\* The segment kinds that end when swimming stops.
StopKinds == {"warmup", "work", "cooldown"}

\* The value of is_swimming whose stability ends a segment of this type.
Awaited(type) == type = "rest"

\* The target is set and reached (a target of 0 is reached at once).
Reached(target, value) == target # None /\ value >= target.some

\* A check() of the current segment that found no duration or distance
\* target reached, read the awaited value of is_swimming, the value the
\* monitor remembers to have seen since c, and was made at least the
\* debounce time after c.
C40_DueCheck ==
    /\ CheckStep
    /\ Evaluable
    /\ "metrics" \in DOMAIN chk'.value
    /\ LET segment == current_segment(_state)
           metrics == chk'.value.metrics
       IN  /\ ~Reached(segment.target_duration_seconds,
                       metrics.elapsed_seconds)
           /\ ~Reached(IF segment.target_distance_m = None THEN None
                       ELSE Some(segment.target_distance_m.some * 10),
                       metrics.distance_m)
           /\ metrics.is_swimming = Awaited(segment.type)
           /\ monitor._last_swimming_state = Awaited(segment.type)
           /\ monitor._swimming_state_changed_at # None
           /\ _state.segment_started_at + metrics.elapsed_seconds
                  - monitor._swimming_state_changed_at.some
                  >= monitor.swimming_debounce_seconds

\* The monitor has observed, in a check() after the grace period of the
\* current segment, the signal change to the awaited value; the segment has
\* no target; the signal still has that value, the clock reaches the end of
\* the debounce time, and the loop is about to poll again (it is not acting
\* on a report).
C40_Observed ==
    /\ Evaluable
    /\ PollLoopAt("check")
    /\ current_segment(_state).target_duration_seconds = None
    /\ current_segment(_state).target_distance_m = None
    /\ monitor._last_swimming_state = Awaited(current_segment(_state).type)
    /\ store.state.is_swimming = Awaited(current_segment(_state).type)
    /\ monitor._swimming_state_changed_at # None
    /\ monitor._swimming_state_changed_at.some
           >= _state.segment_started_at + monitor.grace_period_seconds
    /\ monitor._swimming_state_changed_at.some
           + monitor.swimming_debounce_seconds <= MaxTime

\* check() has just reported the swimming trigger of the current segment.
C40_Reported ==
    /\ chk.op = "check"
    /\ "reason" \in DOMAIN chk.value
    /\ chk.value.should_transition
    /\ chk.value.reason \in SwimmingReasons

\* C40: in a segment with no reached duration or distance target, once the
\* monitor has observed the signal change to false (to true in a rest
\* segment), a check() that reads the same value and is made at least
\* swimming_debounce_seconds after that observation reports
\* swimming_stopped (swimming_started); and under repeated polling the
\* report comes unless the signal changes again.
C40_DebounceSettles ==
    /\ [][C40_DueCheck
            => /\ chk'.value.should_transition
               /\ chk'.value.reason =
                      (IF current_segment(_state).type \in StopKinds
                       THEN "swimming_stopped" ELSE "swimming_started")]_vars
    /\ C40_Observed
           ~> (\/ C40_Reported
               \/ store.state.is_swimming # monitor._last_swimming_state)

\* The loop's check() has just reported swimming_stopped, one debounce time
\* after the stop was observed.
C40_Witness ==
    /\ C40_Reported
    /\ chk.value.reason = "swimming_stopped"
    /\ poll.at = "get_metrics_for_advance"
    /\ monitor.swimming_debounce_seconds = 1
    /\ monitor._swimming_state_changed_at = Some(0)
    /\ now = 1

====
